---- MODULE Spec2Model ----
(***************************************************************************)
(* A model of the ctxt backend: the tier-aware rate limiter, the           *)
(* conversion store with its slug generation, the view counters and the    *)
(* bot detector behind /read/{slug}.                                       *)
(*                                                                         *)
(* Text is modelled as a sequence of one-character strings, so that        *)
(* lengths, truncation, substring search and suffixes are computed as the  *)
(* code computes them.  Python's None is the empty set and an Optional     *)
(* value x is the singleton {x}.                                           *)
(***************************************************************************)
EXTENDS Integers, Sequences, FiniteSets, TLC

VARIABLES
    now,            \* the wall clock (datetime.utcnow()), in ticks
    users,          \* the users table: account id -> row
    conversions,    \* the conversions table: a set of rows
    rate_info,      \* the decision of the request being answered, or None
    last_request,   \* the request that was handled last
    response,       \* the HTTP response to the request handled last
    convert_log,    \* history: <<caller, tick>> -> successful POST /api/convert calls
    extraction_calls,  \* history: calls made to the external extraction service
    handlers,       \* request handlers in flight: handler id -> its position and locals
    views_done,     \* history: conversion id -> view requests answered with success
    denials,        \* history: the denied decisions made since the table last changed
    context_stacks, \* the context_stacks table: a set of rows
    exports_done    \* history: stack id -> exports answered with success

vars == <<now, users, conversions, rate_info, last_request, response,
          convert_log, extraction_calls, handlers, views_done, denials,
          context_stacks, exports_done>>

stack_vars == <<context_stacks, exports_done>>

----------------------------------------------------------------------------
(* Bounds of the model *)

TicksPerDay == 2        \* clock ticks in 24 hours
MaxTime == 3            \* the clock stops here
MaxConversions == 5     \* rows the conversions table may hold

----------------------------------------------------------------------------
(* Optional values *)

None == {}
Some(x) == {x}
Val(o) == CHOOSE x \in o : TRUE

Max(a, b) == IF a >= b THEN a ELSE b

----------------------------------------------------------------------------
(* Text: str methods and the regular expressions of the code *)

UpperChars == <<"A","B","C","D","E","F","G","H","I","J","K","L","M",
                "N","O","P","Q","R","S","T","U","V","W","X","Y","Z">>
LowerChars == <<"a","b","c","d","e","f","g","h","i","j","k","l","m",
                "n","o","p","q","r","s","t","u","v","w","x","y","z">>
DigitChars == <<"0","1","2","3","4","5","6","7","8","9">>

Range(f) == {f[i] : i \in DOMAIN f}

\* str.lower() on one character
LowerChar(c) ==
    IF c \in Range(UpperChars)
    THEN LowerChars[CHOOSE i \in DOMAIN UpperChars : UpperChars[i] = c]
    ELSE c

\* str.lower()
Lower(s) == [i \in 1..Len(s) |-> LowerChar(s[i])]

\* \s of the re module
IsSpace(c) == c \in {" ", "\t", "\n", "\r"}

\* [a-z0-9]
IsLowerAlnum(c) == c \in Range(LowerChars) \cup Range(DigitChars)

\* s[:n]
Take(s, n) == SubSeq(s, 1, IF n < Len(s) THEN Max(n, 0) ELSE Len(s))

\* s[n:]
Drop(s, n) == SubSeq(s, n + 1, Len(s))

\* str.lstrip / str.rstrip / str.strip with a set of characters
RECURSIVE LStrip(_, _)
LStrip(s, cs) == IF s # <<>> /\ Head(s) \in cs THEN LStrip(Tail(s), cs) ELSE s

RECURSIVE RStrip(_, _)
RStrip(s, cs) ==
    IF s # <<>> /\ s[Len(s)] \in cs THEN RStrip(SubSeq(s, 1, Len(s) - 1), cs) ELSE s

Strip(s, cs) == RStrip(LStrip(s, cs), cs)

Whitespace == {" ", "\t", "\n", "\r"}

\* re.sub(r'<class>+', '-', s): every maximal run of characters of cs becomes one "-"
RECURSIVE CollapseRuns(_, _)
CollapseRuns(s, cs) ==
    IF s = <<>> THEN <<>>
    ELSE IF Head(s) \in cs
         THEN <<"-">> \o CollapseRuns(LStrip(s, cs), cs)
         ELSE <<Head(s)>> \o CollapseRuns(Tail(s), cs)

\* str.replace(old, new) for single characters
ReplaceChar(s, old, new) == [i \in 1..Len(s) |-> IF s[i] = old THEN new ELSE s[i]]

\* str(n) for n >= 0
RECURSIVE IntToStr(_)
IntToStr(n) ==
    IF n < 10 THEN <<DigitChars[n + 1]>>
    ELSE IntToStr(n \div 10) \o <<DigitChars[(n % 10) + 1]>>

----------------------------------------------------------------------------
(* app/core/config.py: the tier policy *)

rate_limit_free_daily == 5

Tiers == {"free", "power", "pro", "enterprise"}

TIER_CONFIGS ==
    [t \in Tiers |->
        [daily_limit |-> IF t = "free" THEN Some(rate_limit_free_daily) ELSE None]]

\* a slip: an unknown tier name gets the definition of a paid tier
get_tier_config_unknown_paid(tier) ==
    IF tier \in DOMAIN TIER_CONFIGS THEN TIER_CONFIGS[tier] ELSE TIER_CONFIGS["power"]

get_tier_config(tier) ==
    IF tier \in DOMAIN TIER_CONFIGS THEN TIER_CONFIGS[tier] ELSE TIER_CONFIGS["free"]

\* a slip: the tier is ignored and every account gets the free limit
get_daily_limit_free_for_all(tier) == TIER_CONFIGS["free"].daily_limit

get_daily_limit(tier) == get_tier_config(tier).daily_limit

----------------------------------------------------------------------------
(* app/services/conversion.py: slugs *)

SlugBaseMax == 80       \* slug[:80]
SlugMax == 100          \* String(100); "Ensure total length stays under 100 chars"
SlugMinLen == 3         \* len(slug) < 3
TitleMinLen == 10       \* len(title.strip()) > 10

\* hashlib.md5(url.encode()).hexdigest()[:8] of the URLs the model submits
Md5Hex8(url) ==
    IF url.path = <<"/">> THEN <<"1","8","2","c","c","e","d","b">>
    ELSE IF url.path = <<"/","a">> THEN <<"c","d","6","9","b","8","1","e">>
    ELSE <<"9","1","0","d","8","f","1","8">>

generate_slug(url, title) ==
    LET fromTitle ==
            LET s1 == Lower(title)
                s2 == SelectSeq(s1, LAMBDA c : IsLowerAlnum(c) \/ IsSpace(c) \/ c = "-")
                s3 == CollapseRuns(s2, Whitespace)
                s4 == CollapseRuns(s3, {"-"})
            IN  Strip(Take(s4, SlugBaseMax), {"-"})
        fromPath ==
            LET p1 == ReplaceChar(Strip(url.path, {"/"}), "/", "-")
                p2 == SelectSeq(Lower(p1), LAMBDA c : IsLowerAlnum(c) \/ c = "-")
            IN  Strip(Take(p2, SlugBaseMax), {"-"})
        slug == IF title # <<>> /\ Len(Strip(title, Whitespace)) > TitleMinLen
                THEN fromTitle ELSE fromPath
    IN  IF slug = <<>> \/ Len(slug) < SlugMinLen
        THEN <<"c","o","n","v","e","r","s","i","o","n","-">> \o Md5Hex8(url)
        ELSE slug

\* a slip: the base slug is not truncated to make room for the suffix
NextSlugUntruncated(base_slug, counter) == base_slug \o <<"-">> \o IntToStr(counter)

\* the body of the loop of ensure_unique_slug: the slug tried for this counter
NextSlug(base_slug, counter) ==
    LET suffix == <<"-">> \o IntToStr(counter)
    IN  IF Len(base_slug) + Len(suffix) > SlugMax
        THEN Take(base_slug, SlugMax - Len(suffix)) \o suffix
        ELSE base_slug \o suffix

\* db.query(Conversion).filter(Conversion.slug == slug).first() is not None
SlugExists(db, slug) == \E c \in db : c.slug = slug

RECURSIVE UniqueSlugLoop(_, _, _, _)
UniqueSlugLoop(db, base_slug, slug, counter) ==
    IF SlugExists(db, slug)
    THEN UniqueSlugLoop(db, base_slug, NextSlug(base_slug, counter), counter + 1)
    ELSE slug

ensure_unique_slug(db, base_slug) == UniqueSlugLoop(db, base_slug, base_slug, 1)

----------------------------------------------------------------------------
(* app/services/rate_limiter.py *)

\* a slip: the filter on created_at is missing
current_usage_all_time(db, user, t) ==
    IF user # None THEN Cardinality({c \in db : c.user_id = user}) ELSE 0

\* a slip: for an anonymous caller the ownerless rows are counted
current_usage_counts_anonymous(db, user, t) ==
    Cardinality({c \in db : c.user_id = user /\ c.created_at >= t - TicksPerDay})

\* the rows counted by the usage query: this account's, created in the last 24 hours
current_usage_query(db, user, t) ==
    LET yesterday == t - TicksPerDay
    IN  IF user # None
        THEN Cardinality({c \in db : c.user_id = user /\ c.created_at >= yesterday})
        ELSE 0

\* utcnow().replace(hour=0, minute=0, second=0, microsecond=0) + timedelta(days=1)
next_midnight(t) == (t - (t % TicksPerDay)) + TicksPerDay

check_rate_limit(db, user, t) ==
    LET tier == IF user = None THEN "free" ELSE users[Val(user)].tier
        daily_limit == get_daily_limit(tier)
    IN  IF daily_limit = None
        THEN [allowed |-> TRUE, tier |-> tier, daily_limit |-> None,
              remaining |-> None, reset_time |-> None, current_usage |-> 0]
        ELSE LET current_usage == current_usage_query(db, user, t)
             IN  [allowed |-> current_usage < Val(daily_limit),
                  tier |-> tier,
                  daily_limit |-> daily_limit,
                  remaining |-> Some(Max(0, Val(daily_limit) - current_usage)),
                  reset_time |-> Some(next_midnight(t)),
                  current_usage |-> current_usage]

----------------------------------------------------------------------------
(* The store and the requests *)

Accounts == {1}

\* the row of a registered account: tier, usage counter, subscription
NewUser(tier) ==
    [tier |-> tier, usage_count |-> 0, subscription_ends_at |-> None,
     polar_customer_id |-> None, polar_subscription_id |-> None]

\* the callers of a request: an authenticated account, or nobody
Callers == {Some(a) : a \in Accounts} \cup {None}

HttpsExample(path) ==
    [scheme |-> "https",
     netloc |-> <<"e","x","a","m","p","l","e",".","c","o","m">>,
     path |-> path]

\* "Test Article" of https://example.com/test; the content of a request is the
\* sequence of its whitespace-separated words, what content.split() returns
ReqTestArticle ==
    [source_url |-> HttpsExample(<<"/","t","e","s","t">>),
     title |-> <<"T","e","s","t"," ","A","r","t","i","c","l","e">>,
     content |-> <<"This", "is", "test", "content">>]

\* "Hi" of https://example.com/a: the title is too short and so is the path
ReqShort ==
    [source_url |-> HttpsExample(<<"/","a">>), title |-> <<"H","i">>,
     content |-> <<"Content">>]

Request(op, user) == [op |-> op, user |-> user]

Response(status) == [status |-> status]

\* uuid.uuid4(): an id no row has
NewId(db) == CHOOSE i \in 1..(Cardinality(db) + 1) : \A c \in db : c.id # i

\* a slip: the column is declared without unique=True
insert_conversion_no_constraint(db, row) == Some(db \cup {row})

\* db.add(conversion); db.commit() under the unique index on conversions.slug:
\* the table after the insert, or None when the constraint rejects the row
insert_conversion(db, row) ==
    IF \E c \in db : c.slug = row.slug THEN None ELSE Some(db \cup {row})

WordsPerMinute == 200

\* round(n / d) of Python 3 for n >= 0, d > 0: to the nearest integer, a tie
\* to the even one
PyRound(n, d) ==
    LET q == n \div d
        r == n % d
    IN  IF 2 * r < d THEN q
        ELSE IF 2 * r > d THEN q + 1
        ELSE IF q % 2 = 0 THEN q ELSE q + 1

\* a slip: the quotient is truncated, not rounded
_calculate_reading_time_floor(word_count) == Max(1, word_count \div WordsPerMinute)

\* max(1, round(word_count / 200))
_calculate_reading_time(word_count) == Max(1, PyRound(word_count, WordsPerMinute))

NewConversion(db, req, slug, t) ==
    LET word_count == Len(req.content)
    IN  [id |-> NewId(db), slug |-> slug, user_id |-> None,
         source_url |-> req.source_url, title |-> req.title,
         content |-> req.content, word_count |-> word_count,
         reading_time |-> _calculate_reading_time(word_count),
         is_public |-> TRUE, view_count |-> 0, created_at |-> t]

TypeOK ==
    /\ now \in 0..MaxTime
    /\ \A c \in conversions :
        /\ c.user_id \in Callers
        /\ c.created_at \in 0..now
        /\ c.view_count \in Nat
        /\ c.is_public \in BOOLEAN

----------------------------------------------------------------------------
(* Spec: one worker process, the rate limiter over the conversions table *)

InitCommon ==
    /\ now = 0
    /\ conversions = {}
    /\ rate_info = None
    /\ last_request = Request("none", None)
    /\ response = None
    /\ convert_log = <<>>
    /\ extraction_calls = 0
    /\ handlers = <<>>
    /\ views_done = <<>>
    /\ denials = {}
    /\ context_stacks = {}
    /\ exports_done = <<>>

Init ==
    /\ InitCommon
    /\ users \in [Accounts -> {NewUser(t) : t \in Tiers}]

\* time passes
Tick ==
    /\ now < MaxTime
    /\ now' = now + 1
    /\ rate_info' = None
    /\ last_request' = Request("tick", None)
    /\ response' = None
    /\ UNCHANGED <<users, conversions, convert_log, extraction_calls, handlers, views_done,
                   denials>>
    /\ UNCHANGED stack_vars

\* POST /api/conversions, run without interruption
CreateConversion(req) ==
    /\ Cardinality(conversions) < MaxConversions
    /\ LET slug_base == generate_slug(req.source_url, req.title)
           slug == ensure_unique_slug(conversions, slug_base)
           after == insert_conversion(conversions, NewConversion(conversions, req, slug, now))
       IN  IF after = None
           THEN /\ response' = Some(Response(400))
                /\ UNCHANGED conversions
           ELSE /\ response' = Some(Response(200))
                /\ conversions' = Val(after)
    /\ rate_info' = None
    /\ last_request' = Request("create_conversion", None)
    /\ denials' = {}
    /\ UNCHANGED <<now, users, convert_log, extraction_calls, handlers, views_done>>
    /\ UNCHANGED stack_vars

\* POST /api/conversions/{conversion_id}/save
SaveConversion(conversion_id, current_user, make_public) ==
    /\ IF \E c \in conversions : c.id = conversion_id
       THEN /\ conversions' =
                {IF c.id = conversion_id
                 THEN [c EXCEPT !.user_id = Some(current_user), !.is_public = make_public]
                 ELSE c : c \in conversions}
            /\ response' = Some(Response(200))
       ELSE /\ response' = Some(Response(404))
            /\ UNCHANGED conversions
    /\ rate_info' = None
    /\ last_request' = Request("save_conversion", Some(current_user))
    /\ denials' = {}
    /\ UNCHANGED <<now, users, convert_log, extraction_calls, handlers, views_done>>
    /\ UNCHANGED stack_vars

\* rate_limiter.check_rate_limit(db, user)
CheckRateLimit(user) ==
    /\ rate_info' = Some(check_rate_limit(conversions, user, now))
    /\ last_request' = Request("check_rate_limit", user)
    /\ response' = None
    /\ denials' =
        LET d == check_rate_limit(conversions, user, now)
        IN  IF d.allowed THEN denials
            ELSE denials \cup {[user |-> user, reset_time |-> d.reset_time]}
    /\ UNCHANGED <<now, users, conversions, convert_log, extraction_calls, handlers, views_done>>
    /\ UNCHANGED stack_vars

Next ==
    \/ Tick
    \/ CreateConversion(ReqTestArticle)
    \/ \E id \in 1..MaxConversions, u \in Accounts : SaveConversion(id, u, TRUE)
    \/ \E user \in Callers : CheckRateLimit(user)

Spec == Init /\ [][Next]_vars

----------------------------------------------------------------------------
(* SpecConvert: POST /api/convert *)

MaxRequests == 6        \* calls of the extraction service

\* pydantic's HttpUrl on the request body: an http(s) URL with a host
HttpUrlValid(url) == url.scheme \in {"http", "https"} /\ url.netloc # <<>>

UrlTest == HttpsExample(<<"/","t","e","s","t">>)
UrlFtp == [scheme |-> "ftp",
           netloc |-> <<"e","x","a","m","p","l","e",".","c","o","m">>,
           path |-> <<"/","t","e","s","t">>]
UrlNoHost == [scheme |-> "https", netloc |-> <<>>, path |-> <<"/","t","e","s","t">>]

UrlLocalhost == [scheme |-> "http",
                 netloc |-> <<"l","o","c","a","l","h","o","s","t",":","8","0">>,
                 path |-> <<"/","t","e","s","t">>]
UrlLoopback == [scheme |-> "http",
                netloc |-> <<"1","2","7",".","0",".","0",".","1">>,
                path |-> <<"/","t","e","s","t">>]

ConvertUrls == {UrlTest, UrlFtp, UrlNoHost, UrlLocalhost, UrlLoopback}

\* URLValidator.ALLOWED_SCHEMES
ALLOWED_SCHEMES == {"http", "https"}

\* URLValidator.BLOCKED_DOMAINS
BLOCKED_DOMAINS ==
    {<<"l","o","c","a","l","h","o","s","t">>,
     <<"1","2","7",".","0",".","0",".","1">>,
     <<"0",".","0",".","0",".","0">>,
     <<"1","0",".","0",".","0",".","0","/","8">>,
     <<"1","7","2",".","1","6",".","0",".","0","/","1","2">>,
     <<"1","9","2",".","1","6","8",".","0",".","0","/","1","6">>}

\* urlparse(url).hostname: the netloc without its port, in lower case
\* (the URLs here carry no user info)
Hostname(netloc) ==
    LET colons == {i \in 1..Len(netloc) : netloc[i] = ":"}
        end == IF colons = {} THEN Len(netloc)
               ELSE (CHOOSE i \in colons : \A j \in colons : i <= j) - 1
    IN  Lower(SubSeq(netloc, 1, end))

\* URLValidator.validate_url: "ok", or the message of the ValidationError raised
validate_url(url) ==
    IF url.scheme \notin ALLOWED_SCHEMES
    THEN "URL scheme must be one of: http, https"
    ELSE IF url.netloc = <<>>
    THEN "URL must have a valid hostname"
    ELSE IF Hostname(url.netloc) # <<>> /\ Hostname(url.netloc) \in BLOCKED_DOMAINS
    THEN "URL domain is not allowed"
    ELSE "ok"

\* what conversion_service.convert_url does for a request: the page's markdown,
\* or an exception (timeout, HTTP status error)
ExtractionOutcomes == {"ok", "timeout", "http_error"}

\* "Temporarily disable database operations for testing": the decision of
\* convert_url is a literal, not the rate limiter's
convert_url_rate_info ==
    [allowed |-> TRUE, tier |-> "free", daily_limit |-> Some(5),
     remaining |-> Some(4), reset_time |-> None, current_usage |-> 1]

\* the status convert_url answers with, given the decision and the extraction's outcome
convert_url_status(rate, outcome) ==
    IF ~rate.allowed
    THEN 400    \* the HTTPException(429) raised in the try block is caught by
                \* "except Exception" and re-raised as 400
    ELSE IF outcome = "ok" THEN 200 ELSE 400

ConvertRequest(caller, url, outcome) ==
    [op |-> "convert_url", user |-> caller, url |-> url, outcome |-> outcome]

InitConvert ==
    /\ now = 0
    /\ users \in [Accounts -> {NewUser(t) : t \in {"free", "power"}}]
    /\ conversions = {}
    /\ rate_info = None
    /\ last_request = Request("none", None)
    /\ response = None
    /\ convert_log = [k \in Callers \X (0..MaxTime) |-> 0]
    /\ extraction_calls = 0
    /\ handlers = <<>>
    /\ views_done = <<>>
    /\ denials = {}
    /\ context_stacks = {}
    /\ exports_done = <<>>

\* POST /api/convert
ConvertUrl(caller, url, outcome) ==
    /\ extraction_calls < MaxRequests
    /\ last_request' = ConvertRequest(caller, url, outcome)
    /\ IF ~HttpUrlValid(url)
       THEN \* rejected by the request schema before the handler runs
            /\ response' = Some(Response(422))
            /\ UNCHANGED <<rate_info, convert_log, extraction_calls>>
       ELSE LET rate == convert_url_rate_info
                called == rate.allowed
                status == convert_url_status(rate, outcome)
            IN  /\ rate_info' = Some(rate)
                /\ extraction_calls' = IF called THEN extraction_calls + 1 ELSE extraction_calls
                /\ response' = Some(Response(status))
                /\ convert_log' =
                    IF status = 200
                    THEN [convert_log EXCEPT ![<<caller, now>>] = @ + 1]
                    ELSE convert_log
    /\ UNCHANGED <<now, users, conversions, handlers, views_done, denials>>
    /\ UNCHANGED stack_vars

\* time passes; the decision of the last request is kept with its response
TickConvert ==
    /\ now < MaxTime
    /\ now' = now + 1
    /\ last_request' = Request("tick", None)
    /\ response' = None
    /\ rate_info' = None
    /\ UNCHANGED <<users, conversions, convert_log, extraction_calls, handlers, views_done,
                   denials>>
    /\ UNCHANGED stack_vars

NextConvert ==
    \/ TickConvert
    \/ \E caller \in Callers, url \in ConvertUrls, outcome \in ExtractionOutcomes :
            ConvertUrl(caller, url, outcome)

SpecConvert == InitConvert /\ [][NextConvert]_vars

----------------------------------------------------------------------------
(* SpecCreate: POST /api/conversions handled by several worker processes.   *)
(* A handler runs no await, so one process runs it without interruption;    *)
(* handlers of different processes interleave at their database statements: *)
(* each query of the loop of ensure_unique_slug, then the commit.           *)

NumHandlers == 2        \* worker processes
MaxCreated == 3         \* rows the table may hold in SpecCreate

Handlers == 1..NumHandlers

CreateRequests == {ReqTestArticle, ReqShort}

IdleHandler ==
    [pc |-> "idle", op |-> "none", req |-> None, slug_base |-> <<>>, slug |-> <<>>,
     counter |-> 0, attempts |-> 0, conversion |-> None, status |-> 0]

\* the handler has answered: its locals are gone, its slug and status are kept
Finished(hd, status) ==
    [IdleHandler EXCEPT !.pc = "done", !.op = hd.op, !.slug = hd.slug,
                        !.attempts = hd.attempts + 1, !.status = status]

InitCreate ==
    /\ now = 0
    /\ users \in [Accounts -> {NewUser(t) : t \in {"free"}}]
    /\ conversions = {}
    /\ rate_info = None
    /\ last_request = Request("none", None)
    /\ response = None
    /\ convert_log = <<>>
    /\ extraction_calls = 0
    /\ handlers = [h \in Handlers |-> IdleHandler]
    /\ views_done = <<>>
    /\ denials = {}
    /\ context_stacks = {}
    /\ exports_done = <<>>

\* the handler is entered: generate_slug, and the first slug to try
CreateStart(h, req) ==
    /\ handlers[h].pc \in {"idle", "done"}
    /\ Cardinality(conversions) < MaxCreated
    /\ LET slug_base == generate_slug(req.source_url, req.title)
       IN  handlers' = [handlers EXCEPT ![h] =
                [pc |-> "check", op |-> "create_conversion", req |-> Some(req),
                 slug_base |-> slug_base, slug |-> slug_base, counter |-> 1,
                 attempts |-> 0, conversion |-> None, status |-> 0]]
    /\ UNCHANGED <<now, users, conversions, rate_info, last_request, response,
                   convert_log, extraction_calls, views_done, denials>>
    /\ UNCHANGED stack_vars

\* one evaluation of the while condition of ensure_unique_slug, and the loop body
CreateCheckSlug(h) ==
    /\ handlers[h].pc = "check"
    /\ LET hd == handlers[h]
       IN  handlers' = [handlers EXCEPT ![h] =
                IF SlugExists(conversions, hd.slug)
                THEN [hd EXCEPT !.slug = NextSlug(hd.slug_base, hd.counter),
                                !.counter = hd.counter + 1]
                ELSE [hd EXCEPT !.pc = "insert"]]
    /\ UNCHANGED <<now, users, conversions, rate_info, last_request, response,
                   convert_log, extraction_calls, views_done, denials>>
    /\ UNCHANGED stack_vars

\* db.add(conversion); db.commit(): the row is stored, or the unique index raises
\* and "except Exception" answers 400
CreateInsert(h) ==
    /\ handlers[h].pc = "insert"
    /\ LET hd == handlers[h]
           after == insert_conversion(conversions,
                        NewConversion(conversions, Val(hd.req), hd.slug, now))
       IN  IF after = None
           THEN /\ handlers' = [handlers EXCEPT ![h] =
                        Finished(hd, 400)]
                /\ response' = Some(Response(400))
                /\ UNCHANGED conversions
           ELSE /\ handlers' = [handlers EXCEPT ![h] =
                        Finished(hd, 200)]
                /\ response' = Some(Response(200))
                /\ conversions' = Val(after)
    /\ last_request' = Request("create_conversion", None)
    /\ UNCHANGED <<now, users, rate_info, convert_log, extraction_calls, views_done,
                   denials>>
    /\ UNCHANGED stack_vars

NextCreate ==
    \/ \E h \in Handlers, req \in CreateRequests : CreateStart(h, req)
    \/ \E h \in Handlers : CreateCheckSlug(h)
    \/ \E h \in Handlers : CreateInsert(h)

SpecCreate == InitCreate /\ [][NextCreate]_vars

----------------------------------------------------------------------------
(* SpecSlugLen: ensure_unique_slug as a function of the base slug and of    *)
(* the slugs stored, on tables where earlier requests with the same base    *)
(* slug have stored base, base-1, ..., base-k.                              *)

MaxCollisions == 150    \* the largest k

\* the numbers of earlier collisions: around each change in the suffix's length
CollisionCounts == {0, 1, 8, 9, 10, 98, 99, 100, MaxCollisions}

\* a base slug of n characters
BaseSlug(n) == [i \in 1..n |-> "a"]

\* the row the (k+1)-th request with this base slug has stored
CollidingRow(base_slug, k) ==
    [id |-> k + 1,
     slug |-> IF k = 0 THEN base_slug ELSE NextSlug(base_slug, k),
     user_id |-> None, source_url |-> UrlTest, title |-> base_slug,
     is_public |-> TRUE, view_count |-> 0, created_at |-> 0]

InitSlugLen ==
    /\ now = 0
    /\ users \in [Accounts -> {NewUser(t) : t \in {"free"}}]
    /\ \E n \in 1..SlugMax, k \in CollisionCounts :
        /\ conversions = {CollidingRow(BaseSlug(n), i) : i \in 0..k}
        /\ last_request = [op |-> "none", base_slug |-> BaseSlug(n)]
    /\ rate_info = None
    /\ response = None
    /\ convert_log = <<>>
    /\ extraction_calls = 0
    /\ handlers = <<>>
    /\ views_done = <<>>
    /\ denials = {}
    /\ context_stacks = {}
    /\ exports_done = <<>>

\* slug = conversion_service.ensure_unique_slug(db, slug_base)
EnsureUniqueSlug ==
    /\ last_request.op = "none"
    /\ last_request' = [last_request EXCEPT !.op = "ensure_unique_slug"]
    /\ response' = Some([slug |-> ensure_unique_slug(conversions, last_request.base_slug)])
    /\ UNCHANGED <<now, users, conversions, rate_info, convert_log, extraction_calls,
                   handlers, views_done, denials>>
    /\ UNCHANGED stack_vars

NextSlugLen == EnsureUniqueSlug

SpecSlugLen == InitSlugLen /\ [][NextSlugLen]_vars

----------------------------------------------------------------------------
(* SpecViews: the three requests that count a view, handled by several      *)
(* worker processes.  Each loads the row into its session, adds one to the  *)
(* loaded view_count in Python, and commits the new value.                  *)

MaxViews == 3           \* view requests made

ViewOps == {"get_seo_page", "get_conversion", "get_conversion_by_slug", "increment_view_count"}

\* get_conversion_by_slug returns the row without counting a view
CountsView(op) == op # "get_conversion_by_slug"

SlugTestArticle == <<"t","e","s","t","-","a","r","t","i","c","l","e">>
SlugMissing == <<"m","i","s","s","i","n","g">>

\* the table after "Test Article" was converted twice and the second
\* conversion was saved as private by account 1
ViewsTable ==
    {[NewConversion({}, ReqTestArticle, SlugTestArticle, 0) EXCEPT !.id = 1],
     [NewConversion({}, ReqTestArticle, NextSlug(SlugTestArticle, 1), 0)
        EXCEPT !.id = 2, !.user_id = Some(1), !.is_public = FALSE]}

ViewKeys == {[id |-> c.id, slug |-> c.slug] : c \in ViewsTable}
                \cup {[id |-> 3, slug |-> SlugMissing]}

\* the query each request runs, .first() of it as an Optional row
view_query(db, op, key) ==
    LET found ==
            IF op = "get_seo_page" THEN {c \in db : c.slug = key.slug}
            ELSE IF op = "get_conversion" THEN {c \in db : c.id = key.id /\ c.is_public}
            ELSE {c \in db : c.slug = key.slug /\ c.is_public}
    IN  IF found = {} THEN None ELSE Some(CHOOSE c \in found : TRUE)

\* a slip: the counter incremented is word_count
commit_word_count(db, loaded) ==
    {IF c.id = loaded.id THEN [c EXCEPT !.word_count = loaded.word_count + 1] ELSE c :
        c \in db}

\* conversion.view_count += 1; db.commit(): the UPDATE writes the value computed
\* from the row as it was loaded
commit_view_count(db, loaded) ==
    {IF c.id = loaded.id THEN [c EXCEPT !.view_count = loaded.view_count + 1] ELSE c :
        c \in db}

ViewsStarted ==
    LET ids == DOMAIN views_done
        Done[S \in SUBSET ids] ==
            IF S = {} THEN 0
            ELSE LET x == CHOOSE y \in S : TRUE IN views_done[x] + Done[S \ {x}]
    IN  Done[ids] + Cardinality({h \in DOMAIN handlers : handlers[h].pc = "commit"})

InitViews ==
    /\ now = 0
    /\ users \in [Accounts -> {NewUser(t) : t \in {"free"}}]
    /\ conversions = ViewsTable
    /\ rate_info = None
    /\ last_request = Request("none", None)
    /\ response = None
    /\ convert_log = <<>>
    /\ extraction_calls = 0
    /\ handlers = [h \in Handlers |-> IdleHandler]
    /\ views_done = [c \in {r.id : r \in ViewsTable} |-> 0]
    /\ denials = {}
    /\ context_stacks = {}
    /\ exports_done = <<>>

\* the handler is entered and runs its query
ViewLoad(h, op, key) ==
    /\ handlers[h].pc \in {"idle", "done"}
    /\ ViewsStarted < MaxViews
    /\ LET conversion == view_query(conversions, op, key)
       IN  handlers' = [handlers EXCEPT ![h] =
                IF conversion = None
                THEN [IdleHandler EXCEPT !.pc = "done", !.op = op, !.status = 404]
                ELSE IF ~CountsView(op)
                THEN [IdleHandler EXCEPT !.pc = "done", !.op = op, !.status = 200]
                ELSE [IdleHandler EXCEPT !.pc = "commit", !.op = op,
                                         !.conversion = conversion]]
    /\ UNCHANGED <<now, users, conversions, rate_info, last_request, response,
                   convert_log, extraction_calls, views_done, denials>>
    /\ UNCHANGED stack_vars

\* the handler commits and answers
ViewCommit(h) ==
    /\ handlers[h].pc = "commit"
    /\ LET loaded == Val(handlers[h].conversion)
       IN  /\ conversions' = commit_view_count(conversions, loaded)
           /\ views_done' = [views_done EXCEPT ![loaded.id] = @ + 1]
           /\ handlers' = [handlers EXCEPT ![h] =
                    [IdleHandler EXCEPT !.pc = "done", !.op = handlers[h].op,
                                        !.status = 200]]
    /\ UNCHANGED <<now, users, rate_info, last_request, response, convert_log,
                   extraction_calls, denials>>
    /\ UNCHANGED stack_vars

NextViews ==
    \/ \E h \in Handlers, op \in ViewOps, key \in ViewKeys : ViewLoad(h, op, key)
    \/ \E h \in Handlers : ViewCommit(h)

SpecViews == InitViews /\ [][NextViews]_vars

\* SpecFrame: the view requests together with POST /api/conversions/{id}/save
\* one worker process: a save still falls between its load and its commit
FrameHandlers == {1}

InitFrame ==
    /\ now = 0
    /\ users \in [Accounts -> {NewUser(t) : t \in {"free"}}]
    /\ conversions = ViewsTable
    /\ rate_info = None
    /\ last_request = Request("none", None)
    /\ response = None
    /\ convert_log = <<>>
    /\ extraction_calls = 0
    /\ handlers = [h \in FrameHandlers |-> IdleHandler]
    /\ views_done = [c \in {r.id : r \in ViewsTable} |-> 0]
    /\ denials = {}
    /\ context_stacks = {}
    /\ exports_done = <<>>

NextFrame ==
    \/ \E h \in FrameHandlers, op \in ViewOps, key \in ViewKeys : ViewLoad(h, op, key)
    \/ \E h \in FrameHandlers : ViewCommit(h)
    \/ \E key \in ViewKeys, u \in Accounts, make_public \in BOOLEAN :
            SaveConversion(key.id, u, make_public)

SpecFrame == InitFrame /\ [][NextFrame]_vars

----------------------------------------------------------------------------
(* app/services/bot_detection.py *)

\* BOT_PATTERNS: each pattern is a literal; wb marks the one that ends in \b
BOT_PATTERNS == <<
    [lit |-> <<"g","o","o","g","l","e","b","o","t">>, wb |-> FALSE],
    [lit |-> <<"b","i","n","g","b","o","t">>, wb |-> FALSE],
    [lit |-> <<"s","l","u","r","p">>, wb |-> FALSE],
    [lit |-> <<"d","u","c","k","d","u","c","k","b","o","t">>, wb |-> FALSE],
    [lit |-> <<"b","a","i","d","u","s","p","i","d","e","r">>, wb |-> FALSE],
    [lit |-> <<"y","a","n","d","e","x","b","o","t">>, wb |-> FALSE],
    [lit |-> <<"f","a","c","e","b","o","o","k","e","x","t","e","r","n","a","l","h","i","t">>, wb |-> FALSE],
    [lit |-> <<"a","h","r","e","f","s","b","o","t">>, wb |-> FALSE],
    [lit |-> <<"s","e","m","r","u","s","h","b","o","t">>, wb |-> FALSE],
    [lit |-> <<"m","a","j","e","s","t","i","c">>, wb |-> FALSE],
    [lit |-> <<"m","j","1","2","b","o","t">>, wb |-> FALSE],
    [lit |-> <<"d","o","t","b","o","t">>, wb |-> FALSE],
    [lit |-> <<"s","c","r","e","a","m","i","n","g"," ","f","r","o","g">>, wb |-> FALSE],
    [lit |-> <<"s","p","y","f","u">>, wb |-> FALSE],
    [lit |-> <<"s","e","r","p","s","t","a","t","b","o","t">>, wb |-> FALSE],
    [lit |-> <<"g","p","t","b","o","t">>, wb |-> FALSE],
    [lit |-> <<"c","h","a","t","g","p","t","-","u","s","e","r">>, wb |-> FALSE],
    [lit |-> <<"o","a","i","-","s","e","a","r","c","h","b","o","t">>, wb |-> FALSE],
    [lit |-> <<"c","l","a","u","d","e","b","o","t">>, wb |-> FALSE],
    [lit |-> <<"c","l","a","u","d","e","-","s","e","a","r","c","h","b","o","t">>, wb |-> FALSE],
    [lit |-> <<"p","e","r","p","l","e","x","i","t","y","b","o","t">>, wb |-> FALSE],
    [lit |-> <<"a","n","t","h","r","o","p","i","c","-","a","i">>, wb |-> FALSE],
    [lit |-> <<"c","l","a","u","d","e","-","w","e","b">>, wb |-> FALSE],
    [lit |-> <<"o","p","e","n","a","i">>, wb |-> FALSE],
    [lit |-> <<"c","o","h","e","r","e","-","a","i">>, wb |-> FALSE],
    [lit |-> <<"c","o","h","e","r","e","-","t","r","a","i","n","i","n","g","-","d","a","t","a","-","c","r","a","w","l","e","r">>, wb |-> FALSE],
    [lit |-> <<"g","o","o","g","l","e","-","e","x","t","e","n","d","e","d">>, wb |-> FALSE],
    [lit |-> <<"g","o","o","g","l","e","-","c","l","o","u","d","v","e","r","t","e","x","b","o","t">>, wb |-> FALSE],
    [lit |-> <<"m","e","t","a","-","e","x","t","e","r","n","a","l","a","g","e","n","t">>, wb |-> FALSE],
    [lit |-> <<"b","y","t","e","s","p","i","d","e","r">>, wb |-> FALSE],
    [lit |-> <<"p","e","t","a","l","b","o","t">>, wb |-> FALSE],
    [lit |-> <<"a","m","a","z","o","n","b","o","t">>, wb |-> FALSE],
    [lit |-> <<"y","o","u","b","o","t">>, wb |-> FALSE],
    [lit |-> <<"d","i","f","f","b","o","t">>, wb |-> FALSE],
    [lit |-> <<"a","p","p","l","e","b","o","t","-","e","x","t","e","n","d","e","d">>, wb |-> FALSE],
    [lit |-> <<"b","o","t">>, wb |-> TRUE],
    [lit |-> <<"c","r","a","w","l","e","r">>, wb |-> FALSE],
    [lit |-> <<"s","p","i","d","e","r">>, wb |-> FALSE],
    [lit |-> <<"s","c","r","a","p","e","r">>, wb |-> FALSE],
    [lit |-> <<"f","e","t","c","h">>, wb |-> FALSE],
    [lit |-> <<"s","c","a","n">>, wb |-> FALSE],
    [lit |-> <<"m","o","n","i","t","o","r">>, wb |-> FALSE],
    [lit |-> <<"c","h","e","c","k">>, wb |-> FALSE],
    [lit |-> <<"c","u","r","l">>, wb |-> FALSE],
    [lit |-> <<"w","g","e","t">>, wb |-> FALSE],
    [lit |-> <<"h","t","t","p">>, wb |-> FALSE],
    [lit |-> <<"p","y","t","h","o","n">>, wb |-> FALSE],
    [lit |-> <<"r","e","q","u","e","s","t","s">>, wb |-> FALSE],
    [lit |-> <<"u","r","l","l","i","b">>, wb |-> FALSE],
    [lit |-> <<"t","w","i","t","t","e","r","b","o","t">>, wb |-> FALSE],
    [lit |-> <<"l","i","n","k","e","d","i","n","b","o","t">>, wb |-> FALSE],
    [lit |-> <<"w","h","a","t","s","a","p","p">>, wb |-> FALSE],
    [lit |-> <<"t","e","l","e","g","r","a","m","b","o","t">>, wb |-> FALSE],
    [lit |-> <<"s","l","a","c","k","b","o","t">>, wb |-> FALSE],
    [lit |-> <<"d","i","s","c","o","r","d","b","o","t">>, wb |-> FALSE],
    [lit |-> <<"a","r","c","h","i","v","e",".","o","r","g">>, wb |-> FALSE],
    [lit |-> <<"w","a","y","b","a","c","k">>, wb |-> FALSE],
    [lit |-> <<"i","a","_","a","r","c","h","i","v","e","r">>, wb |-> FALSE],
    [lit |-> <<"n","e","s","s","u","s">>, wb |-> FALSE],
    [lit |-> <<"n","i","k","t","o">>, wb |-> FALSE],
    [lit |-> <<"s","q","l","m","a","p">>, wb |-> FALSE],
    [lit |-> <<"n","m","a","p">>, wb |-> FALSE]
>>

\* KNOWN_BOTS, in the order of the dict
KNOWN_BOTS == <<
    [name |-> <<"G","o","o","g","l","e","b","o","t">>,
     patterns |-> <<<<"G","o","o","g","l","e","b","o","t","/">>, <<"G","o","o","g","l","e","O","t","h","e","r">>>>],
    [name |-> <<"G","o","o","g","l","e","-","E","x","t","e","n","d","e","d">>,
     patterns |-> <<<<"G","o","o","g","l","e","-","E","x","t","e","n","d","e","d","/">>>>],
    [name |-> <<"G","o","o","g","l","e","-","C","l","o","u","d","V","e","r","t","e","x","B","o","t">>,
     patterns |-> <<<<"G","o","o","g","l","e","-","C","l","o","u","d","V","e","r","t","e","x","B","o","t","/">>>>],
    [name |-> <<"B","i","n","g","B","o","t">>,
     patterns |-> <<<<"b","i","n","g","b","o","t","/">>, <<"B","i","n","g","P","r","e","v","i","e","w","/">>>>],
    [name |-> <<"G","P","T","B","o","t">>,
     patterns |-> <<<<"G","P","T","B","o","t","/">>>>],
    [name |-> <<"C","h","a","t","G","P","T","-","U","s","e","r">>,
     patterns |-> <<<<"C","h","a","t","G","P","T","-","U","s","e","r","/">>, <<"C","h","a","t","G","P","T","-","U","s","e","r","/","2",".","0">>>>],
    [name |-> <<"O","A","I","-","S","e","a","r","c","h","B","o","t">>,
     patterns |-> <<<<"O","A","I","-","S","e","a","r","c","h","B","o","t","/">>>>],
    [name |-> <<"C","l","a","u","d","e","B","o","t">>,
     patterns |-> <<<<"C","l","a","u","d","e","B","o","t","/">>>>],
    [name |-> <<"C","l","a","u","d","e","-","S","e","a","r","c","h","B","o","t">>,
     patterns |-> <<<<"C","l","a","u","d","e","-","S","e","a","r","c","h","B","o","t","/">>>>],
    [name |-> <<"A","n","t","h","r","o","p","i","c","-","A","I">>,
     patterns |-> <<<<"a","n","t","h","r","o","p","i","c","-","a","i">>>>],
    [name |-> <<"C","l","a","u","d","e","-","W","e","b">>,
     patterns |-> <<<<"C","l","a","u","d","e","-","W","e","b">>>>],
    [name |-> <<"P","e","r","p","l","e","x","i","t","y","B","o","t">>,
     patterns |-> <<<<"P","e","r","p","l","e","x","i","t","y","B","o","t","/">>>>],
    [name |-> <<"C","o","h","e","r","e","-","A","I">>,
     patterns |-> <<<<"c","o","h","e","r","e","-","a","i">>, <<"c","o","h","e","r","e","-","t","r","a","i","n","i","n","g","-","d","a","t","a","-","c","r","a","w","l","e","r">>>>],
    [name |-> <<"M","e","t","a","-","E","x","t","e","r","n","a","l","A","g","e","n","t">>,
     patterns |-> <<<<"m","e","t","a","-","e","x","t","e","r","n","a","l","a","g","e","n","t">>, <<"f","a","c","e","b","o","o","k","e","x","t","e","r","n","a","l","h","i","t">>>>],
    [name |-> <<"B","y","t","e","S","p","i","d","e","r">>,
     patterns |-> <<<<"B","y","t","e","s","p","i","d","e","r","/">>>>],
    [name |-> <<"P","e","t","a","l","B","o","t">>,
     patterns |-> <<<<"P","e","t","a","l","B","o","t","/">>>>],
    [name |-> <<"A","m","a","z","o","n","b","o","t">>,
     patterns |-> <<<<"A","m","a","z","o","n","b","o","t","/">>>>],
    [name |-> <<"Y","o","u","B","o","t">>,
     patterns |-> <<<<"Y","o","u","B","o","t","/">>>>],
    [name |-> <<"D","i","f","f","b","o","t">>,
     patterns |-> <<<<"D","i","f","f","b","o","t","/">>>>],
    [name |-> <<"A","p","p","l","e","B","o","t","-","E","x","t","e","n","d","e","d">>,
     patterns |-> <<<<"A","p","p","l","e","b","o","t","-","E","x","t","e","n","d","e","d","/">>>>],
    [name |-> <<"A","h","r","e","f","s","B","o","t">>,
     patterns |-> <<<<"A","h","r","e","f","s","B","o","t","/">>>>],
    [name |-> <<"S","e","m","r","u","s","h","B","o","t">>,
     patterns |-> <<<<"S","e","m","r","u","s","h","B","o","t","/">>>>],
    [name |-> <<"M","J","1","2","B","o","t">>,
     patterns |-> <<<<"M","J","1","2","b","o","t","/">>>>],
    [name |-> <<"D","o","t","B","o","t">>,
     patterns |-> <<<<"D","o","t","B","o","t","/">>>>]
>>

\* \w of the re module (ASCII)
IsWordChar(c) ==
    c \in Range(LowerChars) \cup Range(UpperChars) \cup Range(DigitChars) \cup {"_"}

IsLetter(c) == c \in Range(LowerChars) \cup Range(UpperChars)

UpperChar(c) ==
    IF c \in Range(LowerChars)
    THEN UpperChars[CHOOSE i \in DOMAIN LowerChars : LowerChars[i] = c]
    ELSE c

\* str.title()
Title(s) ==
    [i \in 1..Len(s) |->
        IF i = 1 \/ ~IsLetter(s[i - 1]) THEN UpperChar(s[i]) ELSE LowerChar(s[i])]

\* sub in s
Contains(s, sub) ==
    \E i \in 1..(Len(s) - Len(sub) + 1) : SubSeq(s, i, i + Len(sub) - 1) = sub

\* the pattern matches s at position i, under re.IGNORECASE
MatchesAt(s, i, p) ==
    LET end == i + Len(p.lit) - 1
    IN  /\ end <= Len(s)
        /\ Lower(SubSeq(s, i, end)) = p.lit
        /\ p.wb => (end = Len(s) \/ ~IsWordChar(s[end + 1]))

\* self.bot_regex.search(s): the text matched by the first alternative that
\* matches at the leftmost position where one does, or None
bot_regex_search(s) ==
    LET hits == {i \in 1..Len(s) : \E k \in DOMAIN BOT_PATTERNS : MatchesAt(s, i, BOT_PATTERNS[k])}
    IN  IF hits = {} THEN None
        ELSE LET i == CHOOSE x \in hits : \A y \in hits : x <= y
                 ks == {k \in DOMAIN BOT_PATTERNS : MatchesAt(s, i, BOT_PATTERNS[k])}
                 k == CHOOSE x \in ks : \A y \in ks : x <= y
             IN  Some(SubSeq(s, i, i + Len(BOT_PATTERNS[k].lit) - 1))

AnyTermIn(terms, s) == \E t \in terms : Contains(s, t)

_classify_bot_type(bot_identifier) ==
    LET bot_lower == Lower(bot_identifier)
    IN  IF AnyTermIn({<<"g","o","o","g","l","e">>, <<"b","i","n","g">>,
                      <<"y","a","h","o","o">>, <<"d","u","c","k","d","u","c","k">>,
                      <<"b","a","i","d","u">>, <<"y","a","n","d","e","x">>}, bot_lower)
        THEN "search_engine"
        ELSE IF AnyTermIn({<<"a","h","r","e","f","s">>, <<"s","e","m","r","u","s","h">>,
                      <<"m","a","j","e","s","t","i","c">>, <<"m","j","1","2">>,
                      <<"s","p","y","f","u">>, <<"s","e","r","p","s","t","a","t">>}, bot_lower)
        THEN "seo_tool"
        ELSE IF AnyTermIn({<<"g","p","t">>, <<"c","h","a","t","g","p","t">>,
                      <<"o","a","i","-","s","e","a","r","c","h">>, <<"c","l","a","u","d","e">>,
                      <<"p","e","r","p","l","e","x","i","t","y">>, <<"o","p","e","n","a","i">>,
                      <<"a","n","t","h","r","o","p","i","c">>, <<"c","o","h","e","r","e">>,
                      <<"m","e","t","a","-","e","x","t","e","r","n","a","l">>,
                      <<"b","y","t","e","s","p","i","d","e","r">>,
                      <<"p","e","t","a","l","b","o","t">>, <<"a","m","a","z","o","n","b","o","t">>,
                      <<"y","o","u","b","o","t">>, <<"d","i","f","f","b","o","t">>,
                      <<"a","p","p","l","e","b","o","t","-","e","x","t","e","n","d","e","d">>,
                      <<"g","o","o","g","l","e","-","e","x","t","e","n","d","e","d">>,
                      <<"g","o","o","g","l","e","-","c","l","o","u","d","v","e","r","t","e","x">>},
                     bot_lower)
        THEN "ai_crawler"
        ELSE IF AnyTermIn({<<"f","a","c","e","b","o","o","k">>, <<"t","w","i","t","t","e","r">>,
                      <<"l","i","n","k","e","d","i","n">>, <<"w","h","a","t","s","a","p","p">>,
                      <<"t","e","l","e","g","r","a","m">>, <<"s","l","a","c","k">>,
                      <<"d","i","s","c","o","r","d">>}, bot_lower)
        THEN "social_media"
        ELSE IF AnyTermIn({<<"a","r","c","h","i","v","e">>, <<"w","a","y","b","a","c","k">>,
                      <<"i","a","_","a","r","c","h","i","v","e","r">>}, bot_lower)
        THEN "archiver"
        ELSE IF AnyTermIn({<<"n","e","s","s","u","s">>, <<"n","i","k","t","o">>,
                      <<"s","q","l","m","a","p">>, <<"n","m","a","p">>}, bot_lower)
        THEN "security_scanner"
        ELSE "generic_bot"

NotABot == [is_bot |-> FALSE, bot_name |-> None, bot_type |-> None, confidence |-> 0]

\* identify_bot(user_agent), user_agent an Optional string; confidence in percent
identify_bot(user_agent) ==
    IF user_agent = None \/ Val(user_agent) = <<>>
    THEN NotABot
    ELSE LET user_agent_lower == Lower(Val(user_agent))
             known == {k \in DOMAIN KNOWN_BOTS :
                        \E j \in DOMAIN KNOWN_BOTS[k].patterns :
                            Contains(user_agent_lower, Lower(KNOWN_BOTS[k].patterns[j]))}
             match == bot_regex_search(user_agent_lower)
         IN  IF known # {}
             THEN LET bot_name == KNOWN_BOTS[CHOOSE x \in known : \A y \in known : x <= y].name
                  IN  [is_bot |-> TRUE, bot_name |-> Some(bot_name),
                       bot_type |-> Some(_classify_bot_type(bot_name)), confidence |-> 95]
             ELSE IF match # None
             THEN [is_bot |-> TRUE, bot_name |-> Some(Title(Val(match))),
                   bot_type |-> Some(_classify_bot_type(Val(match))), confidence |-> 80]
             ELSE NotABot

\* is_bot(user_agent): the boolean detector, which no request handler calls
is_bot(user_agent) ==
    IF user_agent = None \/ Val(user_agent) = <<>>
    THEN FALSE
    ELSE LET ua == Lower(Strip(Val(user_agent), Whitespace))
         IN  \/ bot_regex_search(ua) # None
             \/ Len(ua) < 10
             \/ ua \in {<<>>, <<"-">>, <<"n","u","l","l">>, <<"n","o","n","e">>}

markdown_bot_types == {"search_engine", "seo_tool", "ai_crawler", "archiver"}

\* a slip: every bot is served markdown, whatever its type
should_serve_markdown_every_bot(user_agent) == identify_bot(user_agent).is_bot

should_serve_markdown(user_agent) ==
    LET detection_result == identify_bot(user_agent)
    IN  IF ~detection_result.is_bot THEN FALSE
        ELSE detection_result.bot_type \subseteq markdown_bot_types
             /\ detection_result.bot_type # None

----------------------------------------------------------------------------
(* SpecRead: GET /read/{slug} *)

MaxAgentLen == 3        \* the length of the generated User-Agent strings
MaxReads == 2           \* pages served

\* "Mozilla/5.0 (compatible; Googlebot/2.1)"
UaGooglebot == <<"M","o","z","i","l","l","a","/","5",".","0"," ","(","c","o","m","p","a","t","i","b","l","e",";"," ","G","o","o","g","l","e","b","o","t","/","2",".","1",")">>
\* "Mozilla/5.0 (Windows NT 10.0; Win64; x64) AppleWebKit/537.36 Chrome/120"
UaChrome == <<"M","o","z","i","l","l","a","/","5",".","0"," ","(","W","i","n","d","o","w","s"," ","N","T"," ","1","0",".","0",";"," ","W","i","n","6","4",";"," ","x","6","4",")"," ","A","p","p","l","e","W","e","b","K","i","t","/","5","3","7",".","3","6"," ","C","h","r","o","m","e","/","1","2","0">>
\* "facebookexternalhit/1.1"
UaFacebook == <<"f","a","c","e","b","o","o","k","e","x","t","e","r","n","a","l","h","i","t","/","1",".","1">>
\* "curl/8.4.0"
UaCurl == <<"c","u","r","l","/","8",".","4",".","0">>
\* "Twitterbot/1.0"
UaTwitterbot == <<"T","w","i","t","t","e","r","b","o","t","/","1",".","0">>
\* "ia_archiver"
UaArchiver == <<"i","a","_","a","r","c","h","i","v","e","r">>
\* "sqlmap/1.7"
UaSqlmap == <<"s","q","l","m","a","p","/","1",".","7">>
\* "AhrefsBot/7.0"
UaAhrefs == <<"A","h","r","e","f","s","B","o","t","/","7",".","0">>
\* "GPTBot/1.0"
UaGptBot == <<"G","P","T","B","o","t","/","1",".","0">>
\* "-"
UaDash == <<"-">>
\* "null"
UaNull == <<"n","u","l","l">>
\* "none"
UaNone == <<"n","o","n","e">>
\* ""
UaEmpty == <<>>

RECURSIVE StringsUpTo(_, _)
StringsUpTo(alphabet, n) ==
    IF n = 0 THEN {<<>>}
    ELSE LET shorter == StringsUpTo(alphabet, n - 1)
         IN  shorter \cup {<<c>> \o s : c \in alphabet, s \in {t \in shorter : Len(t) = n - 1}}

UserAgents ==
    {UaGooglebot, UaChrome, UaFacebook, UaCurl, UaTwitterbot, UaArchiver, UaSqlmap,
     UaAhrefs, UaGptBot, UaDash, UaNull, UaNone, UaEmpty}
        \cup StringsUpTo({"b", "o", "t"}, MaxAgentLen)

\* the User-Agent header of a request: absent, or a string
UserAgentHeaders == {None} \cup {Some(ua) : ua \in UserAgents}

\* bot_detector.should_serve_markdown on each of these strings, evaluated once
ServeMarkdown == [ua \in UserAgentHeaders \ {None} |-> should_serve_markdown(ua)]

ReadRequest(slug, header) == [op |-> "get_seo_page", slug |-> slug, user_agent |-> header]

\* the page for bots: what the metadata header of the markdown text shows
serve_markdown_content(conversion) ==
    [status |-> 200, format |-> "markdown",
     title |-> conversion.title, source_url |-> conversion.source_url,
     word_count |-> conversion.word_count,
     reading_time |-> conversion.reading_time,
     permanent_link |-> conversion.slug]

\* the page for people: what the HTML shows
serve_html_content(conversion) ==
    LET estimated_read_time == Max(1, conversion.word_count \div WordsPerMinute)
    IN  [status |-> 200, format |-> "html",
         title |-> conversion.title, source_url |-> conversion.source_url,
         word_count |-> conversion.word_count,
         reading_time |-> estimated_read_time,
         permanent_link |-> conversion.slug]

InitRead ==
    /\ now = 0
    /\ users \in [Accounts -> {NewUser(t) : t \in {"free"}}]
    /\ conversions = ViewsTable
    /\ rate_info = None
    /\ last_request = Request("none", None)
    /\ response = None
    /\ convert_log = <<>>
    /\ extraction_calls = 0
    /\ handlers = <<>>
    /\ views_done = [c \in {r.id : r \in ViewsTable} |-> 0]
    /\ denials = {}
    /\ context_stacks = {}
    /\ exports_done = <<>>

\* GET /read/{slug}, run without interruption
GetSeoPage(slug, header) ==
    /\ ViewsStarted < MaxReads
    /\ last_request' = ReadRequest(slug, header)
    /\ LET user_agent == IF header = None THEN Some(<<>>) ELSE header
           conversion == view_query(conversions, "get_seo_page", [slug |-> slug])
       IN  IF conversion = None
           THEN /\ response' = Some(Response(404))
                /\ UNCHANGED <<conversions, views_done>>
           ELSE /\ conversions' = commit_view_count(conversions, Val(conversion))
                /\ views_done' = [views_done EXCEPT ![Val(conversion).id] = @ + 1]
                /\ response' = Some(IF ServeMarkdown[user_agent]
                                     THEN serve_markdown_content(Val(conversion))
                                     ELSE serve_html_content(Val(conversion)))
    /\ UNCHANGED <<now, users, rate_info, convert_log, extraction_calls, handlers, denials>>
    /\ UNCHANGED stack_vars

NextRead ==
    \E slug \in {k.slug : k \in ViewKeys}, header \in UserAgentHeaders :
        GetSeoPage(slug, header)

SpecRead == InitRead /\ [][NextRead]_vars

----------------------------------------------------------------------------
(* SpecPage: GET /read/{slug} of a conversion stored by POST /api/conversions *)
(* from a content of any number of words.                                    *)

MaxWords == 420         \* the longest content, in words

\* a content of n words
Words(n) == [i \in 1..n |-> "word"]

\* the row create_conversion stores for "Test Article" with a content of n words
StoredPage(n) ==
    NewConversion({}, [ReqTestArticle EXCEPT !.content = Words(n)], SlugTestArticle, 0)

\* the readers of the page: no User-Agent, a crawler, a browser
PageReaders == {None, Some(UaGooglebot), Some(UaChrome)}

InitPage ==
    /\ now = 0
    /\ users \in [Accounts -> {NewUser(t) : t \in {"free"}}]
    /\ conversions \in {{StoredPage(n)} : n \in 0..MaxWords}
    /\ rate_info = None
    /\ last_request = Request("none", None)
    /\ response = None
    /\ convert_log = <<>>
    /\ extraction_calls = 0
    /\ handlers = <<>>
    /\ views_done = [c \in {StoredPage(0).id} |-> 0]
    /\ denials = {}
    /\ context_stacks = {}
    /\ exports_done = <<>>

NextPage == \E header \in PageReaders : GetSeoPage(SlugTestArticle, header)

SpecPage == InitPage /\ [][NextPage]_vars

----------------------------------------------------------------------------
(* app/models: context stacks.  A block is a JSON object: a sequence of     *)
(* <<key, value>> pairs in insertion order, a key being text and a value a  *)
(* tagged record [t, v] with t the JSON type and v its text.                *)

JStr(s) == [t |-> "str", v |-> s]
JNull == [t |-> "null", v |-> <<>>]

KeyType == <<"t","y","p","e">>
KeyContent == <<"c","o","n","t","e","n","t">>
KeyUrl == <<"u","r","l">>
KeyTitle == <<"t","i","t","l","e">>

\* dict.get(key, default) on a JSON object
DictGet(d, key, default) ==
    IF \E i \in DOMAIN d : d[i][1] = key
    THEN d[CHOOSE i \in DOMAIN d : d[i][1] = key][2]
    ELSE default

\* {"type": "text", "content": "Some text content"}
TextBlock ==
    << <<KeyType, JStr(<<"t","e","x","t">>)>>,
       <<KeyContent, JStr(<<"S","o","m","e"," ","t","e","x","t"," ","c","o","n","t","e","n","t">>)>> >>

\* {"type": "url", "url": "https://example.com/1", "title": "Example 1", "content": "Content 1"}
UrlBlock ==
    << <<KeyType, JStr(<<"u","r","l">>)>>,
       <<KeyUrl, JStr(<<"h","t","t","p","s",":","/","/","e","x","a","m","p","l","e",".","c","o","m","/","1">>)>>,
       <<KeyTitle, JStr(<<"E","x","a","m","p","l","e"," ","1">>)>>,
       <<KeyContent, JStr(<<"C","o","n","t","e","n","t"," ","1">>)>> >>

\* uuid.uuid4(): an id no stack has
NewStackId(db) == CHOOSE i \in 1..(Cardinality(db) + 1) : \A s \in db : s.id # i

\* ContextStack(...) as POST /api/context-stacks/ builds it
NewContextStack(db, user_id, name, blocks, is_public, t) ==
    [id |-> NewStackId(db), user_id |-> user_id, name |-> name, description |-> None,
     blocks |-> blocks, is_template |-> FALSE, is_public |-> is_public,
     use_count |-> 0, last_used_at |-> None, created_at |-> t]

\* the access query of an export: .first() of the stack with this id that
\* the caller owns or that is public, as an Optional row
get_context_stack_with_access_check(db, stack_id, user_id) ==
    LET found == {s \in db : /\ s.id = stack_id
                              /\ \/ s.is_public
                                 \/ user_id # None /\ s.user_id = Val(user_id)}
    IN  IF found = {} THEN None ELSE Some(CHOOSE s \in found : TRUE)

\* increment_use_count: use_count += 1, last_used_at = utcnow(), commit
increment_use_count(db, stack_id, t) ==
    {IF s.id = stack_id
     THEN [s EXCEPT !.use_count = @ + 1, !.last_used_at = Some(t)] ELSE s : s \in db}

----------------------------------------------------------------------------
(* SpecStacks: context stacks created by account 1 and exported by anyone,  *)
(* through the endpoint POST /api/context-stacks/{id}/export and through    *)
(* ContextStackService.export_context_stack.                                *)

MaxStacks == 2          \* stacks created
MaxExports == 2         \* uses counted over all stacks

StackOwners == {1}
StackCallers == {None, Some(1), Some(2)}
StackIds == 1..(MaxStacks + 1)
ExportFormats == {"xml", "markdown", "json"}
StackName == <<"M","y"," ","S","t","a","c","k">>

UsesCounted ==
    LET Sum[S \in SUBSET context_stacks] ==
            IF S = {} THEN 0
            ELSE LET s == CHOOSE x \in S : TRUE IN s.use_count + Sum[S \ {s}]
    IN  Sum[context_stacks]

\* what is recorded of an export request; the format does not reach the store
ExportRequest(op, stack_id, user, format) ==
    [op |-> op, stack_id |-> stack_id, user |-> user]

InitStacks ==
    /\ now = 0
    /\ users \in [Accounts -> {NewUser(t) : t \in {"free"}}]
    /\ conversions = {}
    /\ rate_info = None
    /\ last_request = Request("none", None)
    /\ response = None
    /\ convert_log = <<>>
    /\ extraction_calls = 0
    /\ handlers = <<>>
    /\ views_done = <<>>
    /\ denials = {}
    /\ context_stacks = {}
    /\ exports_done = [i \in StackIds |-> 0]

\* POST /api/context-stacks/
CreateContextStack(current_user, blocks, is_public) ==
    /\ Cardinality(context_stacks) < MaxStacks
    /\ last_request' = Request("create_context_stack", Some(current_user))
    /\ context_stacks' = context_stacks \cup
            {NewContextStack(context_stacks, current_user, StackName, blocks, is_public, now)}
    /\ response' = Some(Response(200))
    /\ UNCHANGED <<now, users, conversions, rate_info, convert_log, extraction_calls,
                   handlers, views_done, denials, exports_done>>

\* POST /api/context-stacks/{stack_id}/export.  The dependency
\* get_current_active_user needs a bearer token: without one the request is
\* refused before the handler runs.  With one, the handler formats the
\* content, adds one to use_count on the loaded row and then evaluates
\* db.func.now(): a Session has no attribute func, the handler raises before
\* db.commit() and the session's change is dropped.
export_context_stack_endpoint(stack_id, current_user, format) ==
    /\ last_request' = ExportRequest("export_endpoint", stack_id, current_user, format)
    /\ response' =
         IF current_user = None THEN Some(Response(403))
         ELSE IF get_context_stack_with_access_check(context_stacks, stack_id, current_user) = None
         THEN Some(Response(404))
         ELSE Some(Response(500))
    /\ UNCHANGED <<now, users, conversions, rate_info, convert_log, extraction_calls,
                   handlers, views_done, denials, context_stacks, exports_done>>

\* ContextStackService.export_context_stack: the access check, then
\* increment_use_count (which commits), then the content, then the result
\* dictionary, whose "exported_at" evaluates datetime.utcnow() in a module
\* that does not import datetime: NameError, after the commit.
export_context_stack(stack_id, user_id, format) ==
    /\ UsesCounted < MaxExports
    /\ last_request' = ExportRequest("export_service", stack_id, user_id, format)
    /\ IF get_context_stack_with_access_check(context_stacks, stack_id, user_id) = None
       THEN /\ response' = Some(Response(404))
            /\ UNCHANGED context_stacks
       ELSE /\ context_stacks' = increment_use_count(context_stacks, stack_id, now)
            /\ response' = Some(Response(500))
    /\ UNCHANGED <<now, users, conversions, rate_info, convert_log, extraction_calls,
                   handlers, views_done, denials, exports_done>>

NextStacks ==
    \/ \E u \in StackOwners, blocks \in {<<TextBlock>>, <<UrlBlock, TextBlock>>},
          is_public \in BOOLEAN : CreateContextStack(u, blocks, is_public)
    \/ \E id \in StackIds, u \in StackCallers, f \in ExportFormats :
          export_context_stack_endpoint(id, u, f)
    \/ \E id \in StackIds, u \in StackCallers, f \in ExportFormats :
          export_context_stack(id, u, f)

SpecStacks == InitStacks /\ [][NextStacks]_vars

----------------------------------------------------------------------------
(* json.dumps(data, indent=2) and json.loads, on JSON values: a tagged      *)
(* record [t, v] where t is the JSON type and v the text of a string, the   *)
(* digits of a number, the word of a literal, the items of a list or the    *)
(* <<key, value>> pairs of an object in insertion order.                    *)

JInt(n) == [t |-> "int", v |-> IntToStr(n)]
JBool(b) == [t |-> "bool", v |-> IF b THEN <<"t","r","u","e">> ELSE <<"f","a","l","s","e">>]
JList(items) == [t |-> "list", v |-> items]
JDict(pairs) == [t |-> "dict", v |-> pairs]

\* one character outside ASCII, written U+00E9 here
NonAscii == "U+00E9"

\* the escape of a character inside a JSON string (ensure_ascii=True)
JsonEscapeChar(c) ==
    IF c = "\"" THEN <<"\\", "\"">>
    ELSE IF c = "\\" THEN <<"\\", "\\">>
    ELSE IF c = "\n" THEN <<"\\", "n">>
    ELSE IF c = "\t" THEN <<"\\", "t">>
    ELSE IF c = NonAscii THEN <<"\\", "u", "0", "0", "e", "9">>
    ELSE <<c>>

RECURSIVE JsonEscape(_)
JsonEscape(s) ==
    IF s = <<>> THEN <<>> ELSE JsonEscapeChar(Head(s)) \o JsonEscape(Tail(s))

JsonString(s) == <<"\"">> \o JsonEscape(s) \o <<"\"">>

\* the line break and indentation before an item at this nesting level
JsonNewline(level) == <<"\n">> \o [i \in 1..(2 * level) |-> " "]

RECURSIVE JsonDumps(_, _)
RECURSIVE JsonItems(_, _, _, _)
\* the items of a list or object from position i on, separated by "," and a line break
JsonItems(val, i, level, is_dict) ==
    IF i > Len(val.v) THEN <<>>
    ELSE LET item == IF is_dict
                     THEN JsonString(val.v[i][1]) \o <<":", " ">>
                            \o JsonDumps(val.v[i][2], level)
                     ELSE JsonDumps(val.v[i], level)
             sep == IF i < Len(val.v) THEN <<",">> \o JsonNewline(level) ELSE <<>>
         IN  item \o sep \o JsonItems(val, i + 1, level, is_dict)

JsonDumps(val, level) ==
    IF val.t = "str" THEN JsonString(val.v)
    ELSE IF val.t = "null" THEN <<"n","u","l","l">>
    ELSE IF val.t \in {"int", "bool"} THEN val.v
    ELSE LET open == IF val.t = "dict" THEN <<"{">> ELSE <<"[">>
             close == IF val.t = "dict" THEN <<"}">> ELSE <<"]">>
         IN  IF Len(val.v) = 0 THEN open \o close
             ELSE open \o JsonNewline(level + 1)
                    \o JsonItems(val, 1, level + 1, val.t = "dict")
                    \o JsonNewline(level) \o close

json_dumps(data) == JsonDumps(data, 0)

IsJsonSpace(c) == c \in {" ", "\n", "\t", "\r"}

\* the first position from i on that holds no whitespace
SkipSpace(s, i) ==
    CHOOSE j \in i..(Len(s) + 1) :
        /\ \A k \in i..(j - 1) : IsJsonSpace(s[k])
        /\ j = Len(s) + 1 \/ ~IsJsonSpace(s[j])

JsonUnescapeChar(c) ==
    IF c = "n" THEN "\n" ELSE IF c = "t" THEN "\t" ELSE IF c = "r" THEN "\r" ELSE c

\* the character of a \uXXXX escape
JsonUnicode(hex) == IF hex = <<"0", "0", "e", "9">> THEN NonAscii ELSE "?"

RECURSIVE ParseString(_, _, _)
\* the string whose characters start at i, after the opening quote
ParseString(s, i, acc) ==
    IF s[i] = "\"" THEN [val |-> JStr(acc), next |-> i + 1]
    ELSE IF s[i] = "\\"
    THEN IF s[i + 1] = "u"
         THEN ParseString(s, i + 6, Append(acc, JsonUnicode(SubSeq(s, i + 2, i + 5))))
         ELSE ParseString(s, i + 2, Append(acc, JsonUnescapeChar(s[i + 1])))
    ELSE ParseString(s, i + 1, Append(acc, s[i]))

RECURSIVE ParseValue(_, _)
RECURSIVE ParseElements(_, _, _)
RECURSIVE ParseMembers(_, _, _)

\* the items of a list; i is at the next item or at the closing bracket
ParseElements(s, i, acc) ==
    IF s[i] = "]" THEN [val |-> JList(acc), next |-> i + 1]
    ELSE LET r == ParseValue(s, i)
             j == SkipSpace(s, r.next)
         IN  IF s[j] = ","
             THEN ParseElements(s, SkipSpace(s, j + 1), Append(acc, r.val))
             ELSE [val |-> JList(Append(acc, r.val)), next |-> j + 1]

\* the members of an object; i is at the next key or at the closing brace
ParseMembers(s, i, acc) ==
    IF s[i] = "}" THEN [val |-> JDict(acc), next |-> i + 1]
    ELSE LET key == ParseString(s, i + 1, <<>>)
             colon == SkipSpace(s, key.next)
             r == ParseValue(s, colon + 1)
             j == SkipSpace(s, r.next)
             pair == <<key.val.v, r.val>>
         IN  IF s[j] = ","
             THEN ParseMembers(s, SkipSpace(s, j + 1), Append(acc, pair))
             ELSE [val |-> JDict(Append(acc, pair)), next |-> j + 1]

ParseValue(s, i) ==
    LET j == SkipSpace(s, i)
        c == s[j]
    IN  IF c = "\"" THEN ParseString(s, j + 1, <<>>)
        ELSE IF c = "{" THEN ParseMembers(s, SkipSpace(s, j + 1), <<>>)
        ELSE IF c = "[" THEN ParseElements(s, SkipSpace(s, j + 1), <<>>)
        ELSE IF c = "n" THEN [val |-> JNull, next |-> j + 4]
        ELSE IF c = "t" THEN [val |-> JBool(TRUE), next |-> j + 4]
        ELSE IF c = "f" THEN [val |-> JBool(FALSE), next |-> j + 5]
        ELSE LET end == CHOOSE k \in j..Len(s) :
                            /\ \A x \in j..k : s[x] \in Range(DigitChars)
                            /\ k = Len(s) \/ s[k + 1] \notin Range(DigitChars)
             IN  [val |-> [t |-> "int", v |-> SubSeq(s, j, end)], next |-> end + 1]

json_loads(s) == ParseValue(s, 1).val

----------------------------------------------------------------------------
(* ContextStackService._export_as_json *)

KeyName == <<"n","a","m","e">>
KeyDescription == <<"d","e","s","c","r","i","p","t","i","o","n">>
KeyBlocks == <<"b","l","o","c","k","s">>
KeyMetadata == <<"m","e","t","a","d","a","t","a">>
KeyCreatedAt == <<"c","r","e","a","t","e","d","_","a","t">>
KeyUseCount == <<"u","s","e","_","c","o","u","n","t">>
KeyIsTemplate == <<"i","s","_","t","e","m","p","l","a","t","e">>

\* created_at.isoformat() of the tick t
IsoFormat(t) == <<"2","0","2","4","-","0","1","-","0">> \o IntToStr(t + 1)

\* a slip: the sources are dropped whatever include_sources says
_export_as_json_content_only(stack, blocks, include_sources) ==
    json_dumps(JDict(<<
        <<KeyName, JStr(stack.name)>>,
        <<KeyDescription, IF stack.description = None THEN JNull
                          ELSE JStr(Val(stack.description))>>,
        <<KeyBlocks, JList([i \in DOMAIN blocks |->
                        JDict(<< <<KeyContent, DictGet(blocks[i], KeyContent, JStr(<<>>))>> >>)])>>,
        <<KeyMetadata, JDict(<<
            <<KeyCreatedAt, JStr(IsoFormat(stack.created_at))>>,
            <<KeyUseCount, JInt(stack.use_count)>>,
            <<KeyIsTemplate, JBool(stack.is_template)>> >>)>> >>))

_export_as_json(stack, blocks, include_sources) ==
    json_dumps(JDict(<<
        <<KeyName, JStr(stack.name)>>,
        <<KeyDescription, IF stack.description = None THEN JNull
                          ELSE JStr(Val(stack.description))>>,
        <<KeyBlocks, JList([i \in DOMAIN blocks |->
                        IF include_sources THEN JDict(blocks[i])
                        ELSE JDict(<< <<KeyContent, DictGet(blocks[i], KeyContent, JStr(<<>>))>> >>)])>>,
        <<KeyMetadata, JDict(<<
            <<KeyCreatedAt, JStr(IsoFormat(stack.created_at))>>,
            <<KeyUseCount, JInt(stack.use_count)>>,
            <<KeyIsTemplate, JBool(stack.is_template)>> >>)>> >>))

----------------------------------------------------------------------------
(* SpecExportJson: _export_as_json on one stored stack whose blocks are     *)
(* drawn from the shapes of a block and from contents with the characters   *)
(* that JSON escapes.                                                       *)

MaxBlocks == 2          \* blocks of the stack
MaxContentLen == 2      \* characters of a block's content

ContentChars == {"a", "\"", "\\", "\n"}
BlockKinds == {"text", "url", "bare", "null"}

\* the block at position i of kind k around the content c
BlockOf(k, c, i) ==
    LET content == c \o IntToStr(i)
    IN  IF k = "text" THEN << <<KeyType, JStr(<<"t","e","x","t">>)>>, <<KeyContent, JStr(content)>> >>
        ELSE IF k = "url"
        THEN << <<KeyType, JStr(<<"u","r","l">>)>>,
                <<KeyUrl, JStr(<<"h","t","t","p","s",":","/","/","e","x","a","m","p","l","e",".","c","o","m","/","1">>)>>,
                <<KeyTitle, JStr(<<"E", "x", " ", NonAscii, " ", "\"", "1", "\"">>)>>,
                <<KeyContent, JStr(content)>> >>
        ELSE IF k = "bare" THEN << <<KeyType, JStr(<<"t","e","x","t">>)>> >>
        ELSE << <<KeyType, JStr(<<"t","e","x","t">>)>>, <<KeyContent, JNull>> >>

BlockLists ==
    UNION {{[i \in 1..n |-> BlockOf(kinds[i], c, i)] :
                kinds \in [1..n -> BlockKinds],
                c \in StringsUpTo(ContentChars, MaxContentLen)} : n \in 0..MaxBlocks}

ExportJsonRequest(include_sources) ==
    [op |-> "_export_as_json", stack_id |-> 1, include_sources |-> include_sources]

InitExportJson ==
    /\ now = 0
    /\ users \in [Accounts -> {NewUser(t) : t \in {"free"}}]
    /\ conversions = {}
    /\ rate_info = None
    /\ last_request = Request("none", None)
    /\ response = None
    /\ convert_log = <<>>
    /\ extraction_calls = 0
    /\ handlers = <<>>
    /\ views_done = <<>>
    /\ denials = {}
    /\ context_stacks \in {{NewContextStack({}, 1, StackName, blocks, FALSE, 0)} :
                                blocks \in BlockLists}
    /\ exports_done = <<>>

\* content = self._export_as_json(context_stack, blocks, include_sources)
ExportAsJson(include_sources) ==
    /\ response = None
    /\ last_request' = ExportJsonRequest(include_sources)
    /\ LET context_stack == CHOOSE s \in context_stacks : s.id = 1
       IN  response' = Some([content |->
                _export_as_json(context_stack, context_stack.blocks, include_sources)])
    /\ UNCHANGED <<now, users, conversions, rate_info, convert_log, extraction_calls,
                   handlers, views_done, denials, context_stacks, exports_done>>

NextExportJson == \E include_sources \in BOOLEAN : ExportAsJson(include_sources)

SpecExportJson == InitExportJson /\ [][NextExportJson]_vars

----------------------------------------------------------------------------
(* app/services/payment.py: PaymentService.handle_webhook_event.  An event  *)
(* is [type, data]; data holds the Optional values that the handlers read   *)
(* with event_data.get: id, customer_id, metadata.user_id, metadata.tier,   *)
(* current_period_end and cancel_at (times in ticks).                       *)

EventData(id, customer_id, user_id, tier, current_period_end, cancel_at) ==
    [id |-> id, customer_id |-> customer_id, user_id |-> user_id, tier |-> tier,
     current_period_end |-> current_period_end, cancel_at |-> cancel_at]

\* query.first(): the matching account with the least id, as an Optional
FirstUser(db, matches(_)) ==
    LET found == {a \in DOMAIN db : matches(db[a])}
    IN  IF found = {} THEN None ELSE Some(CHOOSE a \in found : \A b \in found : a <= b)

\* the result of a handler: the users table, and whether it raised
Handled(db) == [users |-> db, raised |-> FALSE]
Raised(db) == [users |-> db, raised |-> TRUE]

_handle_checkout_completed(db, event_data) ==
    IF event_data.user_id = None \/ event_data.tier = None
    THEN Handled(db)
    ELSE IF Val(event_data.user_id) \notin DOMAIN db
    THEN Handled(db)
    ELSE Handled([db EXCEPT ![Val(event_data.user_id)] =
                    [@ EXCEPT !.tier = Val(event_data.tier),
                              !.polar_customer_id = event_data.customer_id]])

\* datetime.fromisoformat("") raises ValueError before the commit
_handle_subscription_created(db, event_data) ==
    LET ByCustomer(u) == u.polar_customer_id = event_data.customer_id
        user == FirstUser(db, ByCustomer)
    IN  IF user = None THEN Handled(db)
        ELSE IF event_data.current_period_end = None THEN Raised(db)
        ELSE Handled([db EXCEPT ![Val(user)] =
                        [@ EXCEPT !.polar_subscription_id = event_data.id,
                                  !.subscription_ends_at = event_data.current_period_end]])

_handle_subscription_cancelled(db, event_data) ==
    LET BySubscription(u) == u.polar_subscription_id = event_data.id
        user == FirstUser(db, BySubscription)
    IN  IF user = None THEN Handled(db)
        ELSE IF event_data.cancel_at = None THEN Raised(db)
        ELSE Handled([db EXCEPT ![Val(user)] =
                        [@ EXCEPT !.subscription_ends_at = event_data.cancel_at]])

\* a slip: each update extends the subscription by the period's end
_handle_subscription_updated_additive(db, event_data) ==
    LET BySubscription(u) == u.polar_subscription_id = event_data.id
        user == FirstUser(db, BySubscription)
    IN  IF user = None THEN Handled(db)
        ELSE IF event_data.current_period_end = None THEN Raised(db)
        ELSE Handled([db EXCEPT ![Val(user)] =
                        [@ EXCEPT !.subscription_ends_at =
                            IF @ = None THEN event_data.current_period_end
                            ELSE Some(Val(@) + Val(event_data.current_period_end))]])

_handle_subscription_updated(db, event_data) ==
    LET BySubscription(u) == u.polar_subscription_id = event_data.id
        user == FirstUser(db, BySubscription)
    IN  IF user = None THEN Handled(db)
        ELSE IF event_data.current_period_end = None THEN Raised(db)
        ELSE Handled([db EXCEPT ![Val(user)] =
                        [@ EXCEPT !.subscription_ends_at = event_data.current_period_end]])

\* an exception of a handler is raised again as PaymentError
handle_webhook_event(db, event_type, event_data) ==
    IF event_type = "checkout.completed" THEN _handle_checkout_completed(db, event_data)
    ELSE IF event_type = "subscription.created" THEN _handle_subscription_created(db, event_data)
    ELSE IF event_type = "subscription.cancelled" THEN _handle_subscription_cancelled(db, event_data)
    ELSE IF event_type = "subscription.updated" THEN _handle_subscription_updated(db, event_data)
    ELSE Handled(db)

----------------------------------------------------------------------------
(* SpecWebhook: billing events delivered to the service, in any order and   *)
(* any number of times, and requests to POST /payment/webhook.              *)

Customers == {None, Some("cus_1")}
Subscriptions == {None, Some("sub_1")}
PeriodEnds == {None, Some(1), Some(2)}
PurchasedTiers == {None, Some("power"), Some("gold")}

WebhookEvents ==
    {[type |-> "checkout.completed", data |-> EventData(Some("chk_1"), c, u, t, None, None)] :
        c \in Customers, u \in {None, Some(1), Some(9)}, t \in PurchasedTiers}
    \cup {[type |-> "subscription.created", data |-> EventData(s, c, None, None, e, None)] :
        s \in Subscriptions \ {None}, c \in Customers, e \in PeriodEnds}
    \cup {[type |-> "subscription.cancelled", data |-> EventData(s, None, None, None, None, e)] :
        s \in Subscriptions, e \in PeriodEnds}
    \cup {[type |-> "subscription.updated", data |-> EventData(s, None, None, None, e, None)] :
        s \in Subscriptions, e \in PeriodEnds}
    \cup {[type |-> "order.created", data |-> EventData(Some("ord_1"), Some("cus_1"), None, None, None, None)]}

InitWebhook ==
    /\ now = 0
    /\ users \in [Accounts -> {NewUser(t) : t \in {"free"}}]
    /\ conversions = {}
    /\ rate_info = None
    /\ last_request = Request("none", None)
    /\ response = None
    /\ convert_log = <<>>
    /\ extraction_calls = 0
    /\ handlers = <<>>
    /\ views_done = <<>>
    /\ denials = {}
    /\ context_stacks = {}
    /\ exports_done = <<>>

\* await payment_service.handle_webhook_event(db, event_type, event_data).
\* The request records whether the event repeats the one handled just before,
\* and the users table as the first of these deliveries left it.
HandleWebhookEvent(event) ==
    /\ LET result == handle_webhook_event(users, event.type, event.data)
           replayed == /\ last_request.op = "handle_webhook_event"
                       /\ last_request.event = event
       IN  /\ users' = result.users
           /\ response' = Some(Response(IF result.raised THEN 500 ELSE 200))
           /\ last_request' =
                [op |-> "handle_webhook_event", event |-> event, replayed |-> replayed,
                 after_once |-> IF replayed THEN last_request.after_once ELSE result.users]
    /\ UNCHANGED <<now, conversions, rate_info, convert_log, extraction_calls,
                   handlers, views_done, denials, context_stacks, exports_done>>

----------------------------------------------------------------------------
(* app/api/payment.py: POST /payment/webhook *)

\* hmac.new(key, body, hashlib.sha256).hexdigest(): a tag that is the same
\* for the same key and body and for no other pair
HmacSha256(key, body) == [key |-> key, body |-> body]

\* the raw bodies: a JSON event, an object without "type", or not JSON at all
BodyOf(event) == [json |-> Some(event)]
BodyNoType == [json |-> Some([type |-> "", data |-> EventData(None, None, None, None, None, None)])]
BodyNotJson == [json |-> None]

WebhookBodies ==
    {BodyOf(e) : e \in {x \in WebhookEvents :
                          /\ x.data.id # None
                          /\ \/ x.type = "order.created"
                             \/ /\ x.type = "checkout.completed"
                                /\ x.data.user_id = Some(1)
                                /\ x.data.tier # None
                                /\ x.data.customer_id # None
                             \/ /\ x.type = "subscription.created"
                                /\ x.data.customer_id # None
                                /\ x.data.current_period_end = Some(1)
                             \/ /\ x.type = "subscription.updated"
                                /\ x.data.current_period_end = Some(2)
                             \/ /\ x.type = "subscription.cancelled"
                                /\ x.data.cancel_at = Some(1)}}
        \cup {BodyNoType, BodyNotJson}

\* settings.polar_webhook_secret: unset, or the shared secret
WebhookSecrets == {None, Some("whsec_1")}

\* an empty header value, which is the tag of nothing
EmptySignature == [key |-> "", body |-> BodyNotJson]

\* the polar-webhook-signature header: absent, empty, the tag of this body
\* under the shared secret or under another key, or the tag of another body
SignaturesFor(body) ==
    {None, Some(EmptySignature), Some(HmacSha256("whsec_1", body)), Some(HmacSha256("whsec_2", body)),
     Some(HmacSha256("whsec_1", BodyNotJson)), Some(HmacSha256("whsec_1", BodyNoType))}

\* get_polar_service(): the name is imported from app.services.payment, which
\* does not define it; the endpoint may find no service or one that handles
\* the event as PaymentService does and reports success or not
PolarServices == {"none", "reports_success", "reports_failure"}

\* a slip: the signature is not compared with the expected one
signature_valid_unchecked(secret, signature, body) ==
    signature # None /\ signature # Some(EmptySignature) /\ secret # None

\* the two checks of the signature header
signature_valid(secret, signature, body) ==
    /\ signature # None /\ signature # Some(EmptySignature) /\ secret # None
    /\ Val(signature) = HmacSha256(Val(secret), body)

WebhookResponse(status, detail, steps) ==
    [status |-> status, detail |-> detail, steps |-> steps]

\* the answer and the users table of handle_polar_webhook
polar_webhook_result(db, secret, signature, body, service) ==
    IF ~signature_valid(secret, signature, body)
    THEN [users |-> db, response |-> WebhookResponse(400, "Invalid signature", <<"verify">>)]
    ELSE IF body.json = None
    THEN [users |-> db, response |-> WebhookResponse(400, "Invalid JSON", <<"verify", "parse">>)]
    ELSE IF Val(body.json).type = ""
    THEN [users |-> db,
          response |-> WebhookResponse(400, "Missing event type", <<"verify", "parse">>)]
    ELSE IF service = "none"
    THEN [users |-> db,
          response |-> WebhookResponse(503, "Payment service not configured", <<"verify", "parse">>)]
    ELSE LET result == handle_webhook_event(db, Val(body.json).type, Val(body.json).data)
         IN  [users |-> result.users,
              response |->
                IF result.raised
                THEN WebhookResponse(500, "Internal server error", <<"verify", "parse", "handle">>)
                ELSE IF service = "reports_success"
                THEN WebhookResponse(200, "Webhook processed successfully",
                                     <<"verify", "parse", "handle">>)
                ELSE WebhookResponse(500, "Failed to process webhook",
                                     <<"verify", "parse", "handle">>)]

handle_polar_webhook(secret, signature, body, service) ==
    /\ LET result == polar_webhook_result(users, secret, signature, body, service)
       IN  /\ users' = result.users
           /\ response' = Some(result.response)
           /\ last_request' =
                [op |-> "handle_polar_webhook", secret |-> secret, signature |-> signature,
                 body |-> body, users_before |-> users]
    /\ UNCHANGED <<now, conversions, rate_info, convert_log, extraction_calls,
                   handlers, views_done, denials, context_stacks, exports_done>>

NextWebhook ==
    \/ \E event \in WebhookEvents : HandleWebhookEvent(event)
    \/ \E secret \in WebhookSecrets, body \in WebhookBodies, service \in PolarServices :
          \E signature \in SignaturesFor(body) :
              handle_polar_webhook(secret, signature, body, service)

SpecWebhook == InitWebhook /\ [][NextWebhook]_vars

\* AuthService.increment_usage: the only code that raises usage_count; no
\* handler, service or middleware of the application calls it
increment_usage(db, user_id) ==
    IF user_id \in DOMAIN db
    THEN [db EXCEPT ![user_id].usage_count = @ + 1]
    ELSE db

----------------------------------------------------------------------------
(* SpecOwnership: the library of one account, and the save and delete       *)
(* requests of the other accounts.                                          *)

MaxLibrary == 3         \* rows in the table

LibraryAccounts == {1, 2}
LibraryOwner == 1
OtherAccounts == LibraryAccounts \ {LibraryOwner}

\* a row created by POST /api/conversions and then saved by owner, or never saved
LibraryRow(id, owner, is_public) ==
    [NewConversion({}, ReqTestArticle,
                   IF id = 1 THEN SlugTestArticle ELSE NextSlug(SlugTestArticle, id - 1), 0)
        EXCEPT !.id = id, !.user_id = owner, !.is_public = is_public]

\* the tables in which conversion 1 is in the library of LibraryOwner
LibraryTables ==
    {{LibraryRow(id, owner[id], is_public[id]) : id \in 1..MaxLibrary} :
        owner \in {f \in [1..MaxLibrary -> {None} \cup {Some(a) : a \in LibraryAccounts}] :
                        f[1] = Some(LibraryOwner)},
        is_public \in [1..MaxLibrary -> BOOLEAN]}

InitOwnership ==
    /\ now = 0
    /\ users = [a \in LibraryAccounts |-> NewUser("free")]
    /\ conversions \in LibraryTables
    /\ rate_info = None
    /\ last_request = Request("none", None)
    /\ response = None
    /\ convert_log = <<>>
    /\ extraction_calls = 0
    /\ handlers = <<>>
    /\ views_done = <<>>
    /\ denials = {}
    /\ context_stacks = {}
    /\ exports_done = <<>>

\* DELETE /api/conversions/{conversion_id}
DeleteConversion(conversion_id, current_user) ==
    /\ LET found == {c \in conversions :
                        c.id = conversion_id /\ c.user_id = Some(current_user)}
       IN  IF found = {}
           THEN /\ response' = Some(Response(404))
                /\ UNCHANGED conversions
           ELSE /\ conversions' = conversions \ found
                /\ response' = Some(Response(200))
    /\ rate_info' = None
    /\ last_request' = Request("delete_conversion", Some(current_user))
    /\ denials' = {}
    /\ UNCHANGED <<now, users, convert_log, extraction_calls, handlers, views_done>>
    /\ UNCHANGED stack_vars

\* the requests of the accounts other than LibraryOwner
NextOwnership ==
    \/ \E id \in 1..MaxLibrary, u \in OtherAccounts, make_public \in BOOLEAN :
            SaveConversion(id, u, make_public)
    \/ \E id \in 1..MaxLibrary, u \in OtherAccounts : DeleteConversion(id, u)

SpecOwnership == InitOwnership /\ [][NextOwnership]_vars

----------------------------------------------------------------------------
(* SpecTiers: the rate limiter for accounts whose tier column holds a name  *)
(* that is no key of TIER_CONFIGS, as a checkout with such a name leaves it *)

UnknownTiers == {"gold", "Free"}

InitTiers ==
    /\ InitCommon
    /\ users \in [Accounts -> {NewUser(t) : t \in UnknownTiers}]

SpecTiers == InitTiers /\ [][Next]_vars

----------------------------------------------------------------------------
(* SpecStackEdit: ContextStackService.update_context_stack and              *)
(* delete_context_stack, called by the owner of a stack and by others       *)

EditAccounts == {1, 2}

NewName == <<"R","e","n","a","m","e","d">>

\* the updates dict of a call: per key the value given, or None for a key
\* the dict does not hold
Updates(name, is_public, user_id, id, created_at) ==
    [name |-> name, is_public |-> is_public, user_id |-> user_id, id |-> id,
     created_at |-> created_at]

UpdateDicts ==
    {Updates(Some(NewName), None, None, None, None),
     Updates(None, Some(TRUE), None, None, None),
     Updates(None, Some(FALSE), Some(2), None, None),
     Updates(Some(NewName), None, Some(1), Some(3), Some(7)),
     Updates(None, None, None, None, None)}

\* key not in ['id', 'user_id', 'created_at']
ProtectedKeys == {"id", "user_id", "created_at"}

\* one turn of "for key, value in updates.items()": setattr unless protected
ApplyUpdate(stack, key, value) ==
    IF value = None \/ key \in ProtectedKeys THEN stack
    ELSE [stack EXCEPT ![key] = Val(value)]

ApplyUpdates(stack, updates) ==
    LET s1 == ApplyUpdate(stack, "name", updates.name)
        s2 == ApplyUpdate(s1, "is_public", updates.is_public)
        s3 == ApplyUpdate(s2, "user_id", updates.user_id)
        s4 == ApplyUpdate(s3, "id", updates.id)
    IN  ApplyUpdate(s4, "created_at", updates.created_at)

\* a slip: the query filters on the id alone
owned_stack_query_any_owner(db, stack_id, user_id) ==
    {s \in db : s.id = stack_id}

\* the query of update and delete: the stack with this id owned by user_id
owned_stack_query(db, stack_id, user_id) ==
    {s \in db : s.id = stack_id /\ s.user_id = user_id}

EditRequest(op, stack_id, user_id, updates) ==
    [op |-> op, stack_id |-> stack_id, user |-> user_id, updates |-> updates,
     before |-> context_stacks]

\* ContextStackService.update_context_stack
update_context_stack(stack_id, user_id, updates) ==
    /\ last_request' = EditRequest("update_context_stack", stack_id, user_id, updates)
    /\ LET found == owned_stack_query(context_stacks, stack_id, user_id)
       IN  IF found = {}
           THEN /\ response' = Some(Response(404))
                /\ UNCHANGED context_stacks
           ELSE /\ context_stacks' =
                    {IF s \in found THEN ApplyUpdates(s, updates) ELSE s : s \in context_stacks}
                /\ response' = Some(Response(200))
    /\ UNCHANGED <<now, users, conversions, rate_info, convert_log, extraction_calls,
                   handlers, views_done, denials, exports_done>>

\* ContextStackService.delete_context_stack: True, or False when the caller
\* owns no stack with this id
delete_context_stack(stack_id, user_id) ==
    /\ last_request' =
            EditRequest("delete_context_stack", stack_id, user_id,
                        Updates(None, None, None, None, None))
    /\ LET found == owned_stack_query(context_stacks, stack_id, user_id)
       IN  /\ context_stacks' = context_stacks \ found
           /\ response' = Some([deleted |-> found # {}])
    /\ UNCHANGED <<now, users, conversions, rate_info, convert_log, extraction_calls,
                   handlers, views_done, denials, exports_done>>

NextStackEdit ==
    \/ \E u \in EditAccounts, is_public \in BOOLEAN :
            CreateContextStack(u, <<TextBlock>>, is_public)
    \/ \E id \in StackIds, u \in EditAccounts, updates \in UpdateDicts :
            update_context_stack(id, u, updates)
    \/ \E id \in StackIds, u \in EditAccounts : delete_context_stack(id, u)

SpecStackEdit == InitStacks /\ [][NextStackEdit]_vars

----------------------------------------------------------------------------
(* SpecDecided: the body of convert_url below the rate_info assignment,     *)
(* applied to the decisions check_rate_limit produces                       *)

\* RateLimiter.get_rate_limit_headers
get_rate_limit_headers(rate) ==
    [tier |-> rate.tier, used |-> rate.current_usage,
     limit |-> rate.daily_limit, remaining |-> rate.remaining, reset |-> rate.reset_time]

\* decisions of check_rate_limit for a free account: allowed with 1 used (the
\* literal of convert_url), refused with 5 or 6 used, and for a paid account
RateDecisions ==
    {convert_url_rate_info}
    \cup {[allowed |-> FALSE, tier |-> "free", daily_limit |-> Some(rate_limit_free_daily),
           remaining |-> Some(0), reset_time |-> Some(next_midnight(0)),
           current_usage |-> n] : n \in {rate_limit_free_daily, rate_limit_free_daily + 1}}
    \cup {[allowed |-> TRUE, tier |-> "power", daily_limit |-> None,
           remaining |-> None, reset_time |-> None, current_usage |-> 0]}

\* the headers of the answer: the HTTPException(429) carries the rate-limit
\* headers, but "except Exception" replaces it by an HTTPException(400) that
\* has none; the success answer is a dict
convert_url_headers(rate, outcome) == None

\* the try block of convert_url under a decision
ConvertDecided(caller, outcome, rate) ==
    /\ extraction_calls < MaxRequests
    /\ last_request' = ConvertRequest(caller, UrlTest, outcome)
    /\ rate_info' = Some(rate)
    /\ extraction_calls' = IF rate.allowed THEN extraction_calls + 1 ELSE extraction_calls
    /\ response' = Some([status |-> convert_url_status(rate, outcome),
                         headers |-> convert_url_headers(rate, outcome)])
    /\ UNCHANGED <<now, users, conversions, convert_log, handlers, views_done, denials>>
    /\ UNCHANGED stack_vars

NextDecided ==
    \E caller \in Callers, outcome \in ExtractionOutcomes, rate \in RateDecisions :
        ConvertDecided(caller, outcome, rate)

SpecDecided == InitConvert /\ [][NextDecided]_vars

----------------------------------------------------------------------------
(* SpecCancel: a purchase, its subscription and the cancellation, with the  *)
(* clock and the rate limiter                                               *)

PeriodEnd == 2          \* current_period_end of the subscription
CancelAt == 1           \* cancel_at of the cancellation

EventCheckout ==
    [type |-> "checkout.completed",
     data |-> EventData(Some("chk_1"), Some("cus_1"), Some(1), Some("power"), None, None)]
EventSubscribed ==
    [type |-> "subscription.created",
     data |-> EventData(Some("sub_1"), Some("cus_1"), None, None, Some(PeriodEnd), None)]
EventCancelled ==
    [type |-> "subscription.cancelled",
     data |-> EventData(Some("sub_1"), None, None, None, None, Some(CancelAt))]

CancelEvents == {EventCheckout, EventSubscribed, EventCancelled}

NextCancel ==
    \/ Tick
    \/ \E event \in CancelEvents : HandleWebhookEvent(event)
    \/ \E a \in Accounts : CheckRateLimit(Some(a))

SpecCancel == InitWebhook /\ [][NextCancel]_vars

----------------------------------------------------------------------------
(* SpecOrder: the events of one purchase in flight.  checkout.completed and *)
(* subscription.created are delivered in either order, subscription.updated *)
(* after both; handlers holds each delivery's position.                     *)

Deliveries == {"checkout", "created", "updated"}

\* the events of account 1 buying tier with a subscription that ends at period_end
PurchaseEvents(tier, period_end) ==
    [checkout |->
        [type |-> "checkout.completed",
         data |-> EventData(Some("chk_1"), Some("cus_1"), Some(1), Some(tier), None, None)],
     created |->
        [type |-> "subscription.created",
         data |-> EventData(Some("sub_1"), Some("cus_1"), None, None, Some(period_end), None)],
     updated |->
        [type |-> "subscription.updated",
         data |-> EventData(Some("sub_1"), None, None, None, Some(period_end + 1), None)]]

InitOrder ==
    /\ now = 0
    /\ users \in [Accounts -> {NewUser(t) : t \in {"free"}}]
    /\ conversions = {}
    /\ rate_info = None
    /\ last_request = Request("none", None)
    /\ response = None
    /\ convert_log = <<>>
    /\ extraction_calls = 0
    /\ handlers \in {[k \in Deliveries |->
                        [pc |-> "pending", event |-> PurchaseEvents(tier, period_end)[k]]] :
                     tier \in Tiers \ {"free"}, period_end \in {PeriodEnd - 1, PeriodEnd}}
    /\ views_done = <<>>
    /\ denials = {}
    /\ context_stacks = {}
    /\ exports_done = <<>>

\* the provider delivers an event and handle_webhook_event handles it
DeliverEvent(k) ==
    /\ handlers[k].pc = "pending"
    /\ k = "updated" => \A j \in Deliveries \ {k} : handlers[j].pc = "done"
    /\ LET event == handlers[k].event
           result == handle_webhook_event(users, event.type, event.data)
       IN  /\ users' = result.users
           /\ response' = Some(Response(IF result.raised THEN 500 ELSE 200))
           /\ last_request' = Request("handle_webhook_event", None)
    /\ handlers' = [handlers EXCEPT ![k].pc = "done"]
    /\ rate_info' = None
    /\ UNCHANGED <<now, conversions, convert_log, extraction_calls, views_done, denials>>
    /\ UNCHANGED stack_vars

NextOrder ==
    \/ Tick
    \/ \E k \in Deliveries : DeliverEvent(k)
    \/ \E a \in Accounts : CheckRateLimit(Some(a))

SpecOrder == InitOrder /\ [][NextOrder]_vars

----------------------------------------------------------------------------
(* app/core/auth.py: API keys (SpecApiKey) *)

KeyLen == 9             \* characters of the random key
PrefixChars == 8        \* key[:8]

\* token_urlsafe draws from A-Z a-z 0-9 - _
UrlSafeChars == {"a", "-", "_"}

\* the keys drawn: letters, with "-" or "_" in at most two places
RandomKeys ==
    {key \in [1..KeyLen -> UrlSafeChars] :
        Cardinality({i \in 1..KeyLen : key[i] # "a"}) <= 2}

KeyTag == <<"c","t","x","t","_">>

\* hashlib.sha256(text.encode()).hexdigest(): the same for the same text and
\* for no other
Sha256(text) == [sha256 |-> text]

\* str.split(sep, maxsplit)
RECURSIVE Split(_, _, _)
Split(s, sep, maxsplit) ==
    LET at == {i \in 1..Len(s) : s[i] = sep}
    IN  IF maxsplit = 0 \/ at = {} THEN <<s>>
        ELSE LET i == CHOOSE j \in at : \A k \in at : j <= k
             IN  <<SubSeq(s, 1, i - 1)>> \o Split(SubSeq(s, i + 1, Len(s)), sep, maxsplit - 1)

\* generate_api_key for the random key drawn
generate_api_key(key) ==
    LET prefix == KeyTag \o SubSeq(key, 1, PrefixChars)
    IN  [full_key |-> prefix \o <<"_">> \o key, prefix |-> prefix, key_hash |-> Sha256(key)]

\* verify_api_key: the hash to look the key up by, or None for the 401
verify_api_key(api_key) ==
    IF Len(api_key) < Len(KeyTag) \/ SubSeq(api_key, 1, Len(KeyTag)) # KeyTag
    THEN None
    ELSE LET parts == Split(api_key, "_", 2)
         IN  IF Len(parts) # 3 THEN None ELSE Some(Sha256(parts[3]))

InitApiKey ==
    /\ InitCommon
    /\ users \in [Accounts -> {NewUser(t) : t \in {"free"}}]

\* POST /api/auth/api-keys: the key is shown once, its hash is stored
CreateApiKey(key) ==
    /\ last_request.op = "none"
    /\ last_request' = [op |-> "create_api_key", user |-> Some(1)]
    /\ response' = Some(generate_api_key(key))
    /\ UNCHANGED <<now, users, conversions, rate_info, convert_log, extraction_calls,
                   handlers, views_done, denials>>
    /\ UNCHANGED stack_vars

\* a request that presents the key just created: get_user_from_api_key
\* looks the row up by verify_api_key(api_key)
VerifyApiKey ==
    /\ last_request.op = "create_api_key"
    /\ LET created == Val(response)
       IN  /\ last_request' = [op |-> "verify_api_key", api_key |-> created.full_key,
                                stored_hash |-> created.key_hash]
           /\ response' = Some([key_hash |-> verify_api_key(created.full_key)])
    /\ UNCHANGED <<now, users, conversions, rate_info, convert_log, extraction_calls,
                   handlers, views_done, denials>>
    /\ UNCHANGED stack_vars

NextApiKey ==
    \/ \E key \in RandomKeys : CreateApiKey(key)
    \/ VerifyApiKey

SpecApiKey == InitApiKey /\ [][NextApiKey]_vars

----------------------------------------------------------------------------
(* The rate limiter's decisions (Spec) *)

\* the account's conversions created within the 24 hours before now
InWindow(a) ==
    {c \in conversions : c.user_id = Some(a) /\ now - c.created_at <= TicksPerDay}

Owned(a) == {c \in conversions : c.user_id = Some(a)}

Checked(user) == last_request = Request("check_rate_limit", user) /\ rate_info # None

Decision == Val(rate_info)

\* C1: for a free-tier account (daily limit 5) a check is allowed exactly when
\* fewer than 5 of the account's conversions were created in the 24 hours before
\* the check: denied once 5 lie in the window, allowed again once they have aged
\* out of it, with no reset action in between.
C1_RollingWindow ==
    \A a \in Accounts :
        (Checked(Some(a)) /\ users[a].tier = "free") =>
            /\ Decision.allowed = (Cardinality(InWindow(a)) < rate_limit_free_daily)
            /\ Decision.current_usage = Cardinality(InWindow(a))

\* a free account that has made 5 conversions, all older than 24 hours, is allowed
C1_Witness ==
    /\ Checked(Some(1))
    /\ users[1].tier = "free"
    /\ Cardinality(Owned(1)) >= rate_limit_free_daily
    /\ InWindow(1) = {}
    /\ Decision.allowed

\* C3: for an account on power, pro or enterprise every check is allowed, with
\* daily_limit = None and remaining = None, whatever the account has converted.
C3_UnlimitedAlwaysAllowed ==
    \A a \in Accounts :
        (Checked(Some(a)) /\ users[a].tier \in {"power", "pro", "enterprise"}) =>
            /\ Decision.allowed
            /\ Decision.daily_limit = None
            /\ Decision.remaining = None

\* an unlimited account is checked with 5 conversions in its last 24 hours
C3_Witness ==
    /\ Checked(Some(1))
    /\ users[1].tier = "enterprise"
    /\ Cardinality(InWindow(1)) >= rate_limit_free_daily
    /\ Decision.allowed

\* C4: a check for an unauthenticated caller reports tier free, current_usage 0,
\* allowed, and the full free limit as remaining, whatever the table holds.
C4_AnonymousNeverDenied ==
    Checked(None) =>
        /\ Decision.tier = "free"
        /\ Decision.current_usage = 0
        /\ Decision.allowed
        /\ Decision.remaining = Some(rate_limit_free_daily)

\* an anonymous check with 5 ownerless conversions made in the last 24 hours
C4_Witness ==
    /\ Checked(None)
    /\ Cardinality({c \in conversions :
            c.user_id = None /\ now - c.created_at <= TicksPerDay}) >= rate_limit_free_daily
    /\ Decision.allowed

\* C5: a check made at the reset_time of an earlier denial, with the table
\* unchanged since that denial, is allowed.
C5_AllowedAtResetTime ==
    \A a \in Accounts :
        (Checked(Some(a)) /\ [user |-> Some(a), reset_time |-> Some(now)] \in denials)
            => Decision.allowed

----------------------------------------------------------------------------
(* POST /api/convert (SpecConvert) *)

RECURSIVE SumOver(_, _)
SumOver(S, f) ==
    IF S = {} THEN 0
    ELSE LET x == CHOOSE y \in S : TRUE IN f[x] + SumOver(S \ {x}, f)

\* the successful conversions the caller has made in the 24 hours before now
ConvertedInWindow(caller) ==
    SumOver({k \in DOMAIN convert_log : k[1] = caller /\ now - k[2] <= TicksPerDay},
            convert_log)

\* the same, without the request that was just answered
ConvertedBefore(caller) ==
    ConvertedInWindow(caller) - (IF Val(response).status = 200 THEN 1 ELSE 0)

\* C2: a conversion request of a free-tier account succeeds while the account
\* has made fewer than 5 conversions in the last 24 hours, and is answered 429
\* once it has made 5.
C2_SixthConvertRejected ==
    \A a \in Accounts :
        (/\ last_request \in {ConvertRequest(Some(a), UrlTest, "ok")}
         /\ users[a].tier = "free")
        => IF ConvertedBefore(Some(a)) >= rate_limit_free_daily
           THEN Val(response).status = 429
           ELSE Val(response).status = 200

----------------------------------------------------------------------------
(* Slugs of concurrent creations (SpecCreate) *)

\* C6: no two rows of the conversions table have the same slug.
C6_SlugsUnique ==
    \A c1 \in conversions, c2 \in conversions : c1.id # c2.id => c1.slug # c2.slug

\* a handler's insert was refused because another handler had stored its slug
C6_Witness ==
    \E h \in Handlers :
        /\ handlers[h].pc = "done"
        /\ handlers[h].status = 400
        /\ \E c \in conversions : c.slug = handlers[h].slug

\* C7: a create request fails only after its insert was retried: a request
\* answered 400 has run its insert more than once.
C7_InsertRetried ==
    \A h \in Handlers :
        (handlers[h].pc = "done" /\ handlers[h].status = 400) => handlers[h].attempts > 1

----------------------------------------------------------------------------
(* The length of slugs (SpecSlugLen) *)

\* C8: for a base slug of at most 100 characters and a table that holds base,
\* base-1, ..., base-k, ensure_unique_slug returns a slug of at most 100
\* characters.
C8_SlugAtMost100 ==
    last_request.op = "ensure_unique_slug" => Len(Val(response).slug) <= 100

\* a base slug of 100 characters with base, base-1, ..., base-150 stored: the
\* base is cut to 96 characters to make room for "-151"
C8_Witness ==
    /\ last_request.op = "ensure_unique_slug"
    /\ Len(last_request.base_slug) = 100
    /\ Cardinality(conversions) = 151
    /\ Val(response).slug = BaseSlug(96) \o <<"-", "1", "5", "1">>

----------------------------------------------------------------------------
(* View counters (SpecViews) *)

\* C9: once the view requests for a conversion have all been answered, its
\* view_count is the number of those answered with success (it started at 0).
C9_NoViewLost ==
    \A c \in conversions :
        (\A h \in Handlers :
            handlers[h].pc = "commit" => Val(handlers[h].conversion).id # c.id)
        => c.view_count = views_done[c.id]

----------------------------------------------------------------------------
(* Content negotiation (SpecRead) *)

DegenerateHeaders == {None, Some(UaEmpty), Some(UaDash), Some(UaNull), Some(UaNone)}

\* C10: a read whose User-Agent is absent, empty, "-", "null" or "none" is
\* classified as a bot and is served the markdown representation.
C10_DegenerateServedMarkdown ==
    (/\ last_request.op = "get_seo_page"
     /\ Val(response).status = 200
     /\ last_request.user_agent \in DegenerateHeaders)
    => /\ identify_bot(last_request.user_agent).is_bot
       /\ Val(response).format = "markdown"

\* the stored row a read request is about
ReadRow == CHOOSE c \in conversions : c.slug = last_request.slug

ReadAnswered ==
    /\ last_request.op = "get_seo_page"
    /\ response # None
    /\ Val(response).status = 200

\* C11: a read by "facebookexternalhit/1.1" is classified as a bot of type
\* social_media and is served the rendered HTML page, not the markdown text.
C11_FacebookIsSocialMedia ==
    (ReadAnswered /\ last_request.user_agent = Some(UaFacebook))
    => LET d == identify_bot(last_request.user_agent)
       IN  /\ d.is_bot
           /\ d.bot_type = Some("social_media")
           /\ ~should_serve_markdown(last_request.user_agent)
           /\ Val(response).format = "html"

\* C12: a read is answered with the markdown text exactly when its User-Agent
\* is classified as a bot of type search_engine, seo_tool, ai_crawler or
\* archiver; otherwise with the HTML page; either is of the row read.
C12_MarkdownIffCrawlerType ==
    ReadAnswered
    => LET d == identify_bot(IF last_request.user_agent = None
                             THEN Some(<<>>) ELSE last_request.user_agent)
           plain == /\ d.is_bot
                    /\ d.bot_type \in {Some("search_engine"), Some("seo_tool"),
                                        Some("ai_crawler"), Some("archiver")}
       IN  /\ Val(response).format = IF plain THEN "markdown" ELSE "html"
           /\ Val(response).permanent_link = last_request.slug

\* a bot that is not served markdown: Twitterbot gets the HTML page
C12_Witness ==
    /\ ReadAnswered
    /\ last_request.user_agent = Some(UaTwitterbot)
    /\ identify_bot(Some(UaTwitterbot)).is_bot
    /\ identify_bot(Some(UaTwitterbot)).bot_type = Some("social_media")
    /\ Val(response).format = "html"

----------------------------------------------------------------------------
(* The two representations of a page (SpecPage) *)

\* C13: the page served for a stored conversion shows the reading time that
\* both representations of that conversion show, and the same title,
\* source_url, word_count and permanent link.
C13_SameReadingTime ==
    ReadAnswered
    => LET shown == Val(response)
           bot == serve_markdown_content(ReadRow)
           human == serve_html_content(ReadRow)
       IN  /\ shown.reading_time = bot.reading_time
           /\ shown.reading_time = human.reading_time
           /\ bot.title = human.title
           /\ bot.source_url = human.source_url
           /\ bot.word_count = human.word_count
           /\ bot.permanent_link = human.permanent_link

----------------------------------------------------------------------------
(* The use counter of context stacks (SpecStacks) *)

\* C14: a stack's use_count is the number of exports of it that were answered
\* with success, and last_used_at is set once there is one: a successful
\* export adds exactly one, an export that fails changes no stack.
C14_UseCountIsSuccessfulExports ==
    \A s \in context_stacks :
        /\ s.use_count = exports_done[s.id]
        /\ (s.last_used_at # None) <=> (exports_done[s.id] > 0)

----------------------------------------------------------------------------
(* The json export of a context stack (SpecExportJson) *)

\* the blocks list of an exported text, parsed back
ParsedBlocks == DictGet(json_loads(Val(response).content).v, KeyBlocks, JNull).v

ExportedStack == CHOOSE s \in context_stacks : s.id = last_request.stack_id

\* C15: parsing a json export back gives a blocks list of the stack's length,
\* with the content of the stack's block at each position, and with blocks
\* equal to the stack's when include_sources is true.
C15_JsonRoundTrip ==
    (last_request.op = "_export_as_json" /\ response # None)
    => LET blocks == ExportedStack.blocks
           parsed == ParsedBlocks
       IN  /\ Len(parsed) = Len(blocks)
           /\ \A i \in DOMAIN blocks :
                DictGet(parsed[i].v, KeyContent, JStr(<<>>))
                    = DictGet(blocks[i], KeyContent, JStr(<<>>))
           /\ last_request.include_sources
                => parsed = [i \in DOMAIN blocks |-> JDict(blocks[i])]

\* two blocks with sources, the content holding a quote and a backslash
C15_Witness ==
    /\ last_request.op = "_export_as_json"
    /\ response # None
    /\ last_request.include_sources
    /\ Len(ExportedStack.blocks) = 2
    /\ DictGet(ExportedStack.blocks[1], KeyType, JNull) = JStr(<<"u", "r", "l">>)
    /\ DictGet(ExportedStack.blocks[1], KeyContent, JNull) = JStr(<<"\"", "\\", "1">>)
    /\ ParsedBlocks[1] = JDict(ExportedStack.blocks[1])
    /\ ParsedBlocks[2] = JDict(ExportedStack.blocks[2])

----------------------------------------------------------------------------
(* Billing events (SpecWebhook) *)

\* C16: when an event is handled again right after it was handled, the
\* accounts (tier, customer id, subscription id, subscription_ends_at) are
\* as the first handling left them.
C16_WebhookIdempotent ==
    (last_request.op = "handle_webhook_event" /\ last_request.replayed)
    => users = last_request.after_once

\* a subscription.updated event replayed on an account that has the subscription
C16_Witness ==
    /\ last_request.op = "handle_webhook_event"
    /\ last_request.replayed
    /\ last_request.event.type = "subscription.updated"
    /\ last_request.event.data.id = Some("sub_1")
    /\ users[1].polar_subscription_id = Some("sub_1")
    /\ users[1].tier = "power"
    /\ users[1].subscription_ends_at = Some(2)

\* C17: a webhook request whose signature header is missing, or is not the
\* HMAC-SHA256 of the raw body under the configured secret, is answered
\* 400 "Invalid signature" after the verification alone: the body is not
\* parsed, no event handler runs and the accounts are unchanged.
C17_BadSignatureRejected ==
    (/\ last_request.op = "handle_polar_webhook"
     /\ \/ last_request.signature = None
        \/ last_request.secret = None
        \/ Val(last_request.signature) # HmacSha256(Val(last_request.secret), last_request.body))
    => /\ Val(response).status = 400
       /\ Val(response).detail = "Invalid signature"
       /\ Val(response).steps = <<"verify">>
       /\ users = last_request.users_before

\* a checkout.completed body signed with another key, after the account was upgraded
C17_Witness ==
    /\ last_request.op = "handle_polar_webhook"
    /\ last_request.secret = Some("whsec_1")
    /\ last_request.signature = Some(HmacSha256("whsec_2", last_request.body))
    /\ last_request.body.json # None
    /\ Val(last_request.body.json).type = "checkout.completed"
    /\ Val(last_request.body.json).data.tier = Some("gold")
    /\ Val(last_request.body.json).data.user_id = Some(1)
    /\ users[1].tier = "power"
    /\ Val(response).status = 400

\* C18: a conversion request whose URL fails validation (a scheme other than
\* http/https, an empty host, or a blocklisted host such as localhost or
\* 127.0.0.1) is answered with a validation error, and the extraction service
\* is not called for that request.
C18_InvalidUrlNeverExtracted ==
    [][(/\ last_request'.op = "convert_url"
        /\ validate_url(last_request'.url) # "ok")
       => /\ extraction_calls' = extraction_calls
          /\ Val(response').status \in {400, 422}]_vars

\* C19: after any sequence of operations, an account's usage_count equals the
\* number of successful conversions attributable to the account.
C19_UsageCountIsConversions ==
    \A a \in Accounts : users[a].usage_count = Cardinality(Owned(a))

\* C20: a conversion owned by account A is deleted only by A's own action:
\* while every request is issued by an account other than A, the conversion
\* that A owned at the start is still stored.
C20_OnlyOwnerDeletes ==
    \E c \in conversions : c.id = 1

\* C21: in every reachable state every account's tier is one of free, power,
\* pro, enterprise, whatever metadata a checkout.completed event carries.
C21_TierInEnum ==
    \A a \in DOMAIN users : users[a].tier \in Tiers

\* C22: for an account whose tier is none of free, power, pro, enterprise the
\* rate limiter answers without raising and applies exactly the free-tier
\* daily limit: allowed while fewer than 5 conversions lie in the window.
C22_UnknownTierIsFree ==
    \A a \in Accounts :
        (Checked(Some(a)) /\ users[a].tier \notin Tiers) =>
            /\ get_tier_config(users[a].tier) = TIER_CONFIGS["free"]
            /\ Decision.daily_limit = Some(rate_limit_free_daily)
            /\ Decision.allowed = (Cardinality(InWindow(a)) < rate_limit_free_daily)
            /\ Decision.remaining =
                    Some(Max(0, rate_limit_free_daily - Cardinality(InWindow(a))))

\* an account with tier "gold" is refused its sixth conversion of the day
C22_Witness ==
    /\ Checked(Some(1))
    /\ users[1].tier = "gold"
    /\ Cardinality(InWindow(1)) = rate_limit_free_daily
    /\ ~Decision.allowed

\* the integers nearest to n / 200, and of two equally near ones the even one
NearestMinutes(n) ==
    LET Dist(k) == IF WordsPerMinute * k >= n THEN WordsPerMinute * k - n
                   ELSE n - WordsPerMinute * k
        near == {k \in 0..(n + 1) : \A j \in 0..(n + 1) : Dist(k) <= Dist(j)}
    IN  IF Cardinality(near) = 1 THEN CHOOSE k \in near : TRUE
        ELSE CHOOSE k \in near : k % 2 = 0

\* C23: for every word_count >= 0 the stored reading_time is at least 1 and is
\* max(1, round(word_count / 200)); 0 words give 1 and 400 words give 2.
C23_ReadingTime ==
    \A c \in conversions :
        /\ c.reading_time >= 1
        /\ c.reading_time = Max(1, NearestMinutes(c.word_count))
        /\ c.word_count = 0 => c.reading_time = 1
        /\ c.word_count = 400 => c.reading_time = 2

\* a page of 400 words, read by a crawler as "2 min"
C23_Witness ==
    /\ \E c \in conversions : c.word_count = 400 /\ c.reading_time = 2
    /\ response # None
    /\ Val(response).format = "markdown"
    /\ Val(response).reading_time = 2

\* C24: no save, view by id, view by slug, /read or view-count increment
\* changes a stored conversion's slug, source_url, title, content, word_count
\* or reading_time; every row is kept, with these fields as they were.
C24_ContentImmutable ==
    [][\A c \in conversions :
        \E d \in conversions' :
            /\ d.id = c.id
            /\ d.slug = c.slug
            /\ d.source_url = c.source_url
            /\ d.title = c.title
            /\ d.content = c.content
            /\ d.word_count = c.word_count
            /\ d.reading_time = c.reading_time
            /\ d.created_at = c.created_at]_vars

\* conversion 1 after it was viewed twice and then saved as private by account 1
C24_Witness ==
    /\ last_request = Request("save_conversion", Some(1))
    /\ \E c \in conversions :
        /\ c.id = 1
        /\ c.user_id = Some(1)
        /\ ~c.is_public
        /\ c.view_count = 2
        /\ c.slug = SlugTestArticle
        /\ c.content = ReqTestArticle.content

C27_CancelledIsFreeAfterEnd ==
    \A a \in Accounts :
        (/\ Checked(Some(a))
         /\ users[a].subscription_ends_at = Some(CancelAt)
         /\ now > CancelAt)
        => /\ Decision.daily_limit = Some(rate_limit_free_daily)
           /\ Decision.tier = "free"

\* C28: a conversion whose is_public flag is false is never served by a read
\* operation that takes no credentials (get by id, get by slug, view-count
\* increment, /read/{slug}): its view counter stays as it was.
C28_PrivateNeverServed ==
    \A c \in conversions :
        ~c.is_public => c.view_count = 0 /\ views_done[c.id] = 0

\* C29: once checkout.completed and subscription.created of the same customer
\* have both been handled, in either order, the account has the purchased
\* tier, the customer id, the subscription id and the subscription's end
\* date; and a later subscription.updated finds the account.
C29_OrderIndependent ==
    (handlers["checkout"].pc = "done" /\ handlers["created"].pc = "done") =>
        /\ users[1].tier = Val(handlers["checkout"].event.data.tier)
        /\ users[1].polar_customer_id = Some("cus_1")
        /\ users[1].polar_subscription_id = Some("sub_1")
        /\ users[1].subscription_ends_at =
                IF handlers["updated"].pc = "done"
                THEN handlers["updated"].event.data.current_period_end
                ELSE handlers["created"].event.data.current_period_end

\* C30: for every key produced by generate_api_key, whatever characters the
\* random key contains, verify_api_key(full_key) is exactly the key_hash that
\* was stored when the key was created.
C30_ApiKeyRoundTrip ==
    last_request.op = "verify_api_key" =>
        Val(response).key_hash = Some(last_request.stored_hash)

====
